---------------------------- MODULE Spec2Model ----------------------------
(***************************************************************************)
(* ExpeditionRationCalculator: Product -> Meal -> Day -> Menu aggregation, *)
(* the norm checker and the BOM reducer.                                   *)
(*                                                                         *)
(* Numbers.  The program computes with Python floats.  The model holds     *)
(* every nutrition figure as an integer count of 1/NutrScale units and     *)
(* every weight figure as an integer count of 1/WeightScale units, so that *)
(* x * q / 100 and w * q / 1000 are held exactly (no rounding happens in   *)
(* an aggregation).  The only rounding of the program, the ":.0f" of the   *)
(* warning texts, is modelled by Fmt0 (round half to even).                *)
(*                                                                         *)
(* Objects.  Day objects live in `heap` and are named by their index, so   *)
(* that a copy (dataclasses.replace) and an in-place update are different  *)
(* things in the model as they are in the program.                         *)
(*                                                                         *)
(* Specifications.  Spec is load_configuration, on files in order and on   *)
(* files a load step refuses, followed by the shopping lists; SpecMeal     *)
(* builds one Meal from any list of pairs, or loads a meals or everyday    *)
(* file, over a loaded product registry; SpecDay builds one Day from       *)
(* loaded meals and checks it against a rule set; SpecGroup groups any BOM *)
(* over any product registry and prints the groups; SpecProduct loads any  *)
(* products file or builds one Product; SpecNorms loads the daily norms    *)
(* with either of the two loaders of the repository.                       *)
(***************************************************************************)
EXTENDS Integers, Sequences, FiniteSets, TLC

VARIABLES
    pc,         \* the stage the run has reached
    products,   \* Dict[str, Product]: the product registry
    meals,      \* Dict[str, Meal]: the meal registry
    everyday,   \* the everyday Meal, or None
    heap,       \* the Day objects that exist, by identity (index)
    days,       \* Dict[str, Day]: the day registry, name -> identity in heap
    norms,      \* the DailyNorms, or None
    menus,      \* List[Menu]
    out         \* what the last operation returned or raised

vars == <<pc, products, meals, everyday, heap, days, norms, menus, out>>

None == [none |-> TRUE]
ValueError == [error |-> "ValueError"]
IsError(x) == "error" \in DOMAIN x

EmptyDict == [k \in {} |-> None]
Put(d, k, v) == [x \in DOMAIN d \cup {k} |-> IF x = k THEN v ELSE d[x]]

\* ------------------------------------------------------------ bounds
MaxItems == 3
MaxPeople == 2
MaxEntries == 2
MaxMenus == 2

\* ------------------------------------------------------------ numbers
NutrScale == 100
WeightScale == 1000

\* x / 100 on line 58..61 of meals.py, the result a nutrition figure: a true
\* division, so the quotient is held exactly in units of 1/NutrScale.
\* Variant: a floor division (x // 100).
Div100Floor(n) == (n \div 100) * NutrScale
Div100(n) == (n * NutrScale) \div 100

\* x / 1000 on line 62 of meals.py, the result a weight figure.
Div1000(n) == (n * WeightScale) \div 1000

\* A whole number of the configuration as a nutrition figure.
Nutr(x) == x * NutrScale

\* format(v, ".0f") of a nutrition figure held as n units of 1/NutrScale:
\* the nearest integer, a tie going to the even one.
\* Variant: int(v), the fraction dropped.
Fmt0Truncated(n) == n \div NutrScale
Fmt0(n) ==
    LET q == n \div NutrScale
        r == n % NutrScale
    IN  IF 2 * r < NutrScale THEN q
        ELSE IF 2 * r > NutrScale THEN q + 1
        ELSE IF q % 2 = 0 THEN q ELSE q + 1

\* ------------------------------------------------------------ products
ProductNames == {"rice", "nuts"}

\* The members of the enum ProductCategory.
ProductCategory ==
    {"WHATEVER", "GRAINS", "VEGETABLES", "MEAT", "MILK", "DISPERSSED",
     "DRINKABLE", "SWEETS", "NUTS", "TOURIST_SHOP", "SAUSAGE"}

\* productGroups: the known categories, in display order.  The program's
\* names are Russian; they are written here in Latin letters.
productGroups ==
    <<"Krupy", "Ovoshchi", "Myaso i molochka", "Sladkoe",
      "Sukhofrukty i orekhi", "Drugoe">>

\* productCategoryMap: enum member -> category name.
productCategoryMap ==
    [g \in ProductCategory |->
       CASE g = "GRAINS" -> "Krupy"
         [] g = "VEGETABLES" -> "Ovoshchi"
         [] g \in {"MEAT", "MILK"} -> "Myaso i molochka"
         [] g = "SWEETS" -> "Sladkoe"
         [] g = "NUTS" -> "Sukhofrukty i orekhi"
         [] OTHER -> "Drugoe"]

\* ProductCategory.<member>.value: what the documentation writes for a member.
CategoryValue ==
    [g \in ProductCategory |->
       CASE g = "WHATEVER" -> "Whatever"
         [] g = "GRAINS" -> "Grains"
         [] g = "VEGETABLES" -> "Vegetables"
         [] g = "MEAT" -> "Meat"
         [] g = "MILK" -> "Milk"
         [] g = "DISPERSSED" -> "Dispersed"
         [] g = "DRINKABLE" -> "Drinkable"
         [] g = "SWEETS" -> "Sweets"
         [] g = "NUTS" -> "Nuts"
         [] g = "TOURIST_SHOP" -> "TouristShop"
         [] g = "SAUSAGE" -> "Sausage"]

\* str.upper(), on one character: the letters a..z; any other is kept.
UpperChar(c) ==
    CASE c = "a" -> "A" [] c = "b" -> "B" [] c = "c" -> "C" [] c = "d" -> "D"
      [] c = "e" -> "E" [] c = "f" -> "F" [] c = "g" -> "G" [] c = "h" -> "H"
      [] c = "i" -> "I" [] c = "j" -> "J" [] c = "k" -> "K" [] c = "l" -> "L"
      [] c = "m" -> "M" [] c = "n" -> "N" [] c = "o" -> "O" [] c = "p" -> "P"
      [] c = "q" -> "Q" [] c = "r" -> "R" [] c = "s" -> "S" [] c = "t" -> "T"
      [] c = "u" -> "U" [] c = "v" -> "V" [] c = "w" -> "W" [] c = "x" -> "X"
      [] c = "y" -> "Y" [] c = "z" -> "Z" [] OTHER -> c

RECURSIVE upper(_)
upper(s) ==
    IF s = "" THEN ""
    ELSE UpperChar(SubSeq(s, 1, 1)) \o upper(SubSeq(s, 2, Len(s)))

\* s.replace(old, new), old being one character.
RECURSIVE str_replace(_, _, _)
str_replace(s, old, new) ==
    IF s = "" THEN ""
    ELSE (IF SubSeq(s, 1, 1) = old THEN new ELSE SubSeq(s, 1, 1))
         \o str_replace(SubSeq(s, 2, Len(s)), old, new)

\* ProductCategory.from_str(label): the member whose NAME is the label in
\* upper case with "_" for " "; WHATEVER when there is none (KeyError).
from_str(label) ==
    LET key == str_replace(upper(label), " ", "_")
    IN  IF key \in ProductCategory THEN key ELSE "WHATEVER"

\* The group argument of Product: a string (a label of a file) or a member
\* of the enum.
Label(s) == [label |-> s]
Member(g) == [member |-> g]

DefaultPackageWeight == 1000
DefaultCostPerPackage == 0
DefaultPercentage == 100

\* Product.__post_init__: a string group is resolved, then the numbers are
\* checked.
\* Variant: a label that names no member is refused.
ProductPostInitKnownGroup(self) ==
    IF "label" \in DOMAIN self.group
       /\ str_replace(upper(self.group.label), " ", "_") \notin ProductCategory
    THEN ValueError
    ELSE IF self.calories < 0 THEN ValueError
    ELSE IF self.proteins < 0 THEN ValueError
    ELSE IF self.fats < 0 THEN ValueError
    ELSE IF self.carbohydrates < 0 THEN ValueError
    ELSE IF self.packageWeight <= 0 THEN ValueError
    ELSE IF ~(0 <= self.percentage /\ self.percentage <= 100) THEN ValueError
    ELSE IF self.costPerPackage < 0 THEN ValueError
    ELSE [self EXCEPT !.group = IF "label" \in DOMAIN self.group
                                THEN from_str(self.group.label)
                                ELSE self.group.member]

\* Variant: the package weight is not checked.
ProductPostInitAnyWeight(self) ==
    IF self.calories < 0 THEN ValueError
    ELSE IF self.proteins < 0 THEN ValueError
    ELSE IF self.fats < 0 THEN ValueError
    ELSE IF self.carbohydrates < 0 THEN ValueError
    ELSE IF ~(0 <= self.percentage /\ self.percentage <= 100) THEN ValueError
    ELSE IF self.costPerPackage < 0 THEN ValueError
    ELSE [self EXCEPT !.group = IF "label" \in DOMAIN self.group
                                THEN from_str(self.group.label)
                                ELSE self.group.member]

\* Product.__post_init__ (products.py, lines 121-155).
ProductPostInit(self) ==
    IF self.calories < 0 THEN ValueError
    ELSE IF self.proteins < 0 THEN ValueError
    ELSE IF self.fats < 0 THEN ValueError
    ELSE IF self.carbohydrates < 0 THEN ValueError
    ELSE IF self.packageWeight <= 0 THEN ValueError
    ELSE IF ~(0 <= self.percentage /\ self.percentage <= 100) THEN ValueError
    ELSE IF self.costPerPackage < 0 THEN ValueError
    ELSE [self EXCEPT !.group = IF "label" \in DOMAIN self.group
                                THEN from_str(self.group.label)
                                ELSE self.group.member]

\* Product(name=..., calories=..., proteins=..., fats=..., carbohydrates=...,
\*         group=..., packageWeight=..., costPerPackage=..., percentage=...):
\* the dataclass fields, then __post_init__.  The stored group is a member.
Product(name, calories, proteins, fats, carbohydrates, group, packageWeight, costPerPackage, percentage) ==
    ProductPostInit(
      [name |-> name, calories |-> calories, proteins |-> proteins,
       fats |-> fats, carbohydrates |-> carbohydrates, group |-> group,
       packageWeight |-> packageWeight, costPerPackage |-> costPerPackage,
       percentage |-> percentage])

\* A key of a file's mapping: left out (Absent) or given with a value.
Absent == <<>>
Given(v) == <<v>>

\* dict.get(key, default) on such a key.
OrDefault(x, default) == IF x = Absent THEN default ELSE x[1]

\* yaml.safe_load of a mapping written as the list of its (name, details)
\* entries in document order: a name written twice makes one key, which
\* keeps the place of the first entry and the details of the last.
RECURSIVE safe_load_loop(_, _, _)
safe_load_loop(document, i, data) ==
    IF i > Len(document) THEN data
    ELSE LET e == document[i]
             same == {j \in 1..Len(data) : data[j].name = e.name}
         IN  safe_load_loop(document, i + 1,
               IF same = {} THEN Append(data, e)
               ELSE [j \in 1..Len(data) |-> IF j \in same THEN e ELSE data[j]])

safe_load(document) == safe_load_loop(document, 1, <<>>)

\* The loop of load_products over the items of data['products'], from item i
\* on: the registry, or the first error.  The files of these runs give
\* numbers where a number is expected and a string as group.
RECURSIVE load_products_loop(_, _, _)
load_products_loop(data, i, acc) ==
    IF i > Len(data) THEN acc
    ELSE LET name == data[i].name
             details == data[i].details
         IN  IF Absent \in {details.calories, details.proteins, details.fats,
                            details.carbohydrates}
             THEN ValueError
             ELSE LET group == IF details.group = Absent THEN Member("WHATEVER")
                               ELSE Label(details.group[1])
                      product ==
                          Product(name, details.calories[1],
                                  details.proteins[1], details.fats[1],
                                  details.carbohydrates[1], group,
                                  OrDefault(details.packageWeight,
                                            DefaultPackageWeight),
                                  OrDefault(details.costPerPackage,
                                            DefaultCostPerPackage),
                                  OrDefault(details.percentage,
                                            DefaultPercentage))
                  IN  IF IsError(product) THEN ValueError
                      ELSE IF name \in DOMAIN acc THEN ValueError
                      ELSE load_products_loop(data, i + 1,
                                              Put(acc, name, product))

\* load_products(filename): the document is parsed, then the loop.
load_products(document) ==
    load_products_loop(safe_load(document), 1, EmptyDict)

\* One product's mapping in a file.
Details(calories, proteins, fats, carbohydrates, group, packageWeight, costPerPackage, percentage) ==
    [calories |-> calories, proteins |-> proteins, fats |-> fats,
     carbohydrates |-> carbohydrates, group |-> group,
     packageWeight |-> packageWeight, costPerPackage |-> costPerPackage,
     percentage |-> percentage]

\* The product files of the runs: per product, the details one file gives it.
ProductFacts ==
    [rice |-> {Details(Given(200), Given(7), Given(1), Given(45),
                       Given("Grains"), Given(1000), Absent, Absent),
               Details(Given(333), Given(8), Given(2), Given(74),
                       Given("grains"), Absent, Given(90), Given(100))},
     nuts |-> {Details(Given(601), Given(15), Given(52), Given(21),
                       Given("Nuts"), Given(500), Given(250), Absent),
               Details(Given(200), Given(7), Given(1), Given(45),
                       Absent, Given(250), Absent, Given(80))}]

ProductFiles ==
    {<<[name |-> "rice", details |-> r], [name |-> "nuts", details |-> n]>> :
        r \in ProductFacts.rice, n \in ProductFacts.nuts}

\* ------------------------------------------------------------ meals
Quantities == {-50, 0, 50, 150}

Items(reg) == [product : {reg[n] : n \in DOMAIN reg}, quantity : Quantities]

\* Every list of at most n (product, quantity) pairs over a registry.
RECURSIVE ItemLists(_, _)
ItemLists(reg, n) ==
    IF n = 0 THEN {<<>>}
    ELSE LET shorter == ItemLists(reg, n - 1)
         IN  shorter \cup {Append(l, i) : l \in {s \in shorter : Len(s) = n - 1},
                                          i \in Items(reg)}

\* What one (product, quantity) pair adds to a nutrition figure of the meal:
\* product.<nutrient> * quantity / 100.
ItemNutrient(per100, quantity) == Div100(per100 * quantity)

\* What one pair adds to the weight: product.packageWeight * quantity / 1000.
\* Variant: the consumed grams as kilograms, the package weight not read.
ItemWeightConsumed(product, quantity) == Div1000(quantity)
ItemWeight(product, quantity) == Div1000(product.packageWeight * quantity)

\* The loop of Meal.__post_init__ from item i on; self holds the sums so far.
\* Variant: a pair of negative quantity is passed over, the meal built from
\* the others.
RECURSIVE MealLoopSkipNegative(_, _)
MealLoopSkipNegative(self, i) ==
    IF i > Len(self.products) THEN self
    ELSE LET product == self.products[i].product
             quantity == self.products[i].quantity
         IN  IF quantity < 0 THEN MealLoopSkipNegative(self, i + 1)
             ELSE MealLoopSkipNegative(
                    [self EXCEPT
                       !.calories = @ + ItemNutrient(product.calories, quantity),
                       !.proteins = @ + ItemNutrient(product.proteins, quantity),
                       !.fats = @ + ItemNutrient(product.fats, quantity),
                       !.carbohydrates =
                           @ + ItemNutrient(product.carbohydrates, quantity),
                       !.weight = @ + ItemWeight(product, quantity)],
                    i + 1)
RECURSIVE MealLoop(_, _)
MealLoop(self, i) ==
    IF i > Len(self.products) THEN self
    ELSE LET product == self.products[i].product
             quantity == self.products[i].quantity
         IN  IF quantity < 0 THEN ValueError
             ELSE MealLoop(
                    [self EXCEPT
                       !.calories = @ + ItemNutrient(product.calories, quantity),
                       !.proteins = @ + ItemNutrient(product.proteins, quantity),
                       !.fats = @ + ItemNutrient(product.fats, quantity),
                       !.carbohydrates =
                           @ + ItemNutrient(product.carbohydrates, quantity),
                       !.weight = @ + ItemWeight(product, quantity)],
                    i + 1)

\* Meal(name=name, products=items): the dataclass defaults, then __post_init__.
Meal(name, items) ==
    MealLoop([name |-> name, products |-> items, calories |-> 0, proteins |-> 0,
              fats |-> 0, carbohydrates |-> 0, weight |-> 0], 1)


\* One entry of a meal's mapping in a file: product name and quantity.
Pair(name, quantity) == [product |-> name, quantity |-> quantity]

\* load_meals on one meal's details (a dict: each product name at most once,
\* given here as the list of its (name, quantity) entries in file order):
\* the Meal, or the error.
\* Variant: a pair whose product the registry does not hold is left out of
\* the meal.
MealFromDetailsSkipUnknown(name, details, reg) ==
    LET IsKnown(p) == p.product \in DOMAIN reg
        known == SelectSeq(details, IsKnown)
    IN  Meal(name, [i \in 1..Len(known) |->
                      [product |-> reg[known[i].product],
                       quantity |-> known[i].quantity]])
MealFromDetails(name, details, reg) ==
    IF \E i \in 1..Len(details) : details[i].product \notin DOMAIN reg
    THEN ValueError
    ELSE Meal(name, [i \in 1..Len(details) |->
                       [product |-> reg[details[i].product],
                        quantity |-> details[i].quantity]])

\* load_meals: file is the list of (meal name, details) entries written
\* under 'meals'; the loop runs over the mapping parsed from it.  The
\* registry, or the first error.
RECURSIVE load_meals_loop(_, _, _, _)
load_meals_loop(file, reg, i, acc) ==
    IF i > Len(file) THEN acc
    ELSE LET meal == MealFromDetails(file[i].name, file[i].details, reg)
         IN  IF IsError(meal) THEN ValueError
             ELSE IF file[i].name \in DOMAIN acc THEN ValueError
             ELSE load_meals_loop(file, reg, i + 1, Put(acc, file[i].name, meal))

load_meals(file, reg) == load_meals_loop(safe_load(file), reg, 1, EmptyDict)

\* load_everyday: the file is one meal's details.
EverydayName == "everyday"
load_everyday(details, reg) == MealFromDetails(EverydayName, details, reg)

\* ------------------------------------------------------------ days
AttributeError == [error |-> "AttributeError"]

\* Day.__post_init__: the count check, then the five sums.
\* Variant: the sums scaled by people_count (figures for the group).
DayPostInitPerGroup(self) ==
    IF self.people_count < 1 THEN ValueError
    ELSE IF \E m \in {self.breakfast, self.lunch, self.dinner, self.everyday} :
                m = None
    THEN AttributeError
    ELSE [self EXCEPT
            !.calories = (self.breakfast.calories + self.lunch.calories
                         + self.dinner.calories + self.everyday.calories)
                         * self.people_count,
            !.proteins = (self.breakfast.proteins + self.lunch.proteins
                         + self.dinner.proteins + self.everyday.proteins)
                         * self.people_count,
            !.fats = (self.breakfast.fats + self.lunch.fats
                         + self.dinner.fats + self.everyday.fats)
                         * self.people_count,
            !.carbohydrates = (self.breakfast.carbohydrates
                         + self.lunch.carbohydrates
                         + self.dinner.carbohydrates
                         + self.everyday.carbohydrates) * self.people_count,
            !.weight = (self.breakfast.weight + self.lunch.weight
                         + self.dinner.weight + self.everyday.weight)
                         * self.people_count]

\* Day.__post_init__ (day.py, lines 56-96).
DayPostInit(self) ==
    IF self.people_count < 1 THEN ValueError
    ELSE IF \E m \in {self.breakfast, self.lunch, self.dinner, self.everyday} :
                m = None
    THEN AttributeError
    ELSE [self EXCEPT
            !.calories = self.breakfast.calories + self.lunch.calories
                         + self.dinner.calories + self.everyday.calories,
            !.proteins = self.breakfast.proteins + self.lunch.proteins
                         + self.dinner.proteins + self.everyday.proteins,
            !.fats = self.breakfast.fats + self.lunch.fats
                         + self.dinner.fats + self.everyday.fats,
            !.carbohydrates = self.breakfast.carbohydrates
                         + self.lunch.carbohydrates
                         + self.dinner.carbohydrates
                         + self.everyday.carbohydrates,
            !.weight = self.breakfast.weight + self.lunch.weight
                         + self.dinner.weight + self.everyday.weight]

\* Day(name=..., breakfast=..., lunch=..., dinner=..., everyday=...,
\*     people_count=...): the dataclass defaults, then __post_init__.
Day(name, breakfast, lunch, dinner, evd, people_count) ==
    DayPostInit([name |-> name, breakfast |-> breakfast, lunch |-> lunch,
                 dinner |-> dinner, everyday |-> evd, calories |-> 0,
                 proteins |-> 0, fats |-> 0, carbohydrates |-> 0,
                 weight |-> 0, people_count |-> people_count])

\* dataclasses.replace(day, people_count=n): a new Day built from the fields
\* of day with people_count changed; __post_init__ runs on the new object.
replace(day, n) == DayPostInit([day EXCEPT !.people_count = n])

\* ------------------------------------------------------------ norms
\* DailyNorms of dailyNorms.py, a dataclass without __post_init__: whole
\* numbers of the file as nutrition figures.
DailyNorms(cmin, cmax, protein, fat, carbs) ==
    [daily_calories_min |-> Nutr(cmin), daily_calories_max |-> Nutr(cmax),
     daily_protein |-> Nutr(protein), daily_fat |-> Nutr(fat),
     daily_carbs |-> Nutr(carbs)]

\* DailyNorms.__post_init__ of daily_norms.py.
DailyNormsPostInit(self) ==
    IF self.daily_calories_min < 0 THEN ValueError
    ELSE IF self.daily_calories_max < 0 THEN ValueError
    ELSE IF self.daily_protein < 0 THEN ValueError
    ELSE IF self.daily_fat < 0 THEN ValueError
    ELSE IF self.daily_carbs < 0 THEN ValueError
    ELSE IF self.daily_calories_min > self.daily_calories_max THEN ValueError
    ELSE self

\* DailyNorms of daily_norms.py: the same fields, then __post_init__.
daily_norms_DailyNorms(cmin, cmax, protein, fat, carbs) ==
    DailyNormsPostInit(DailyNorms(cmin, cmax, protein, fat, carbs))

\* The 'rules' mapping of a file: each key Absent or Given.
Rules(cmin, cmax, protein, fat, carbs) ==
    [daily_calories_min |-> cmin, daily_calories_max |-> cmax,
     daily_protein |-> protein, daily_fat |-> fat, daily_carbs |-> carbs]

\* load_daily_norms of daily_norms.py (config_loader.py and display.py
\* import it): every key is required, the values go to the validating class.
daily_norms_load_daily_norms(rules) ==
    IF Absent \in {rules.daily_calories_min, rules.daily_calories_max,
                   rules.daily_protein, rules.daily_fat, rules.daily_carbs}
    THEN ValueError
    ELSE daily_norms_DailyNorms(rules.daily_calories_min[1],
                                rules.daily_calories_max[1],
                                rules.daily_protein[1], rules.daily_fat[1],
                                rules.daily_carbs[1])

\* load_daily_norms of dailyNorms.py (main.py imports it):
\* DailyNorms(**data['rules']), a key left out taking the field's default.
dailyNorms_load_daily_norms(rules) ==
    DailyNorms(OrDefault(rules.daily_calories_min, 2500),
               OrDefault(rules.daily_calories_max, 3200),
               OrDefault(rules.daily_protein, 55),
               OrDefault(rules.daily_fat, 60),
               OrDefault(rules.daily_carbs, 290))

Warning(kind, value, amount) ==
    [kind |-> kind, value |-> Fmt0(value), amount |-> Fmt0(amount)]

\* One `if ...: warnings.append(...)` of check_rules.
AppendIf(warnings, cond, w) == IF cond THEN Append(warnings, w) ELSE warnings

\* Day.check_rules(rules): the list of warnings, each a text built from the
\* figure and the shortfall (or excess), both formatted with ".0f".
\* Variant: proteins are also warned of when above the norm.
check_rules_two_sided(self, rules) ==
    LET w1 == AppendIf(<<>>, self.calories < rules.daily_calories_min,
                 Warning("calories_low", self.calories,
                         rules.daily_calories_min - self.calories))
        w2 == AppendIf(w1, self.calories > rules.daily_calories_max,
                 Warning("calories_high", self.calories,
                         self.calories - rules.daily_calories_max))
        w3 == AppendIf(w2, self.proteins # rules.daily_protein,
                 Warning("proteins_low", self.proteins,
                         rules.daily_protein - self.proteins))
        w4 == AppendIf(w3, self.fats < rules.daily_fat,
                 Warning("fats_low", self.fats,
                         rules.daily_fat - self.fats))
        w5 == AppendIf(w4, self.carbohydrates < rules.daily_carbs,
                 Warning("carbohydrates_low", self.carbohydrates,
                         rules.daily_carbs - self.carbohydrates))
    IN  w5

\* Variant: a figure on the norm is warned of as well (<= and >=).
check_rules_inclusive(self, rules) ==
    LET w1 == AppendIf(<<>>, self.calories <= rules.daily_calories_min,
                 Warning("calories_low", self.calories,
                         rules.daily_calories_min - self.calories))
        w2 == AppendIf(w1, self.calories >= rules.daily_calories_max,
                 Warning("calories_high", self.calories,
                         self.calories - rules.daily_calories_max))
        w3 == AppendIf(w2, self.proteins <= rules.daily_protein,
                 Warning("proteins_low", self.proteins,
                         rules.daily_protein - self.proteins))
        w4 == AppendIf(w3, self.fats <= rules.daily_fat,
                 Warning("fats_low", self.fats,
                         rules.daily_fat - self.fats))
        w5 == AppendIf(w4, self.carbohydrates <= rules.daily_carbs,
                 Warning("carbohydrates_low", self.carbohydrates,
                         rules.daily_carbs - self.carbohydrates))
    IN  w5

\* Day.check_rules (day.py, lines 98-129).
check_rules(self, rules) ==
    LET w1 == AppendIf(<<>>, self.calories < rules.daily_calories_min,
                 Warning("calories_low", self.calories,
                         rules.daily_calories_min - self.calories))
        w2 == AppendIf(w1, self.calories > rules.daily_calories_max,
                 Warning("calories_high", self.calories,
                         self.calories - rules.daily_calories_max))
        w3 == AppendIf(w2, self.proteins < rules.daily_protein,
                 Warning("proteins_low", self.proteins,
                         rules.daily_protein - self.proteins))
        w4 == AppendIf(w3, self.fats < rules.daily_fat,
                 Warning("fats_low", self.fats,
                         rules.daily_fat - self.fats))
        w5 == AppendIf(w4, self.carbohydrates < rules.daily_carbs,
                 Warning("carbohydrates_low", self.carbohydrates,
                         rules.daily_carbs - self.carbohydrates))
    IN  w5


\* dict.get(key, default)
Get(d, k, default) == IF k \in DOMAIN d THEN d[k] ELSE default

\* details.get('people_count', 1)
DefaultPeopleCount == 1

\* load_days: file is the list of (day name, details) entries written under
\* 'days' (the loop runs over the mapping parsed from it), details being [breakfast, lunch, dinner, people_count], each
\* Absent or Given.  Each Day built is a new object of the heap.  The
\* result is [heap, days] or the first error.
RECURSIVE load_days_loop(_, _, _, _, _, _)
load_days_loop(file, mealreg, evd, i, h, acc) ==
    IF i > Len(file) THEN [heap |-> h, days |-> acc]
    ELSE LET e == file[i]
             people_count == OrDefault(e.people_count, DefaultPeopleCount)
         IN  IF Absent \in {e.breakfast, e.lunch, e.dinner} THEN ValueError
             ELSE IF {e.breakfast[1], e.lunch[1], e.dinner[1]} \ DOMAIN mealreg
                        # {}
             THEN ValueError
             ELSE IF people_count < 1 THEN ValueError
             ELSE LET day == Day(e.name, mealreg[e.breakfast[1]],
                                 mealreg[e.lunch[1]], mealreg[e.dinner[1]],
                                 evd, people_count)
                  IN  IF IsError(day) THEN day
                      ELSE IF e.name \in DOMAIN acc THEN ValueError
                      ELSE load_days_loop(file, mealreg, evd, i + 1,
                                          Append(h, day),
                                          Put(acc, e.name, Len(h) + 1))

load_days(file, mealreg, evd, h) ==
    load_days_loop(safe_load(file), mealreg, evd, 1, h, EmptyDict)

\* ------------------------------------------------------------ menus
\* Menu.__post_init__: the loop over self.days from day i on.
\* Variant: every day scaled by the menu-wide default count.
RECURSIVE MenuLoopDefaultCount(_, _, _)
MenuLoopDefaultCount(self, h, i) ==
    IF i > Len(self.days) THEN self
    ELSE LET day == h[self.days[i]]
         IN  MenuLoopDefaultCount(
               [self EXCEPT
                  !.calories = @ + day.calories,
                  !.proteins = @ + day.proteins,
                  !.fats = @ + day.fats,
                  !.carbohydrates = @ + day.carbohydrates,
                  !.weight_per_person = @ + day.weight,
                  !.total_weight = @ + day.weight * self.default_people_count],
               h, i + 1)

\* Variant: the per-person figures scaled by the day's people_count too.
RECURSIVE MenuLoopGroupFigures(_, _, _)
MenuLoopGroupFigures(self, h, i) ==
    IF i > Len(self.days) THEN self
    ELSE LET day == h[self.days[i]]
         IN  MenuLoopGroupFigures(
               [self EXCEPT
                  !.calories = @ + day.calories * day.people_count,
                  !.proteins = @ + day.proteins * day.people_count,
                  !.fats = @ + day.fats * day.people_count,
                  !.carbohydrates = @ + day.carbohydrates * day.people_count,
                  !.weight_per_person = @ + day.weight * day.people_count,
                  !.total_weight = @ + day.weight * day.people_count],
               h, i + 1)

\* Menu.__post_init__ (menus.py, lines 64-76).
RECURSIVE MenuLoop(_, _, _)
MenuLoop(self, h, i) ==
    IF i > Len(self.days) THEN self
    ELSE LET day == h[self.days[i]]
         IN  MenuLoop(
               [self EXCEPT
                  !.calories = @ + day.calories,
                  !.proteins = @ + day.proteins,
                  !.fats = @ + day.fats,
                  !.carbohydrates = @ + day.carbohydrates,
                  !.weight_per_person = @ + day.weight,
                  !.total_weight = @ + day.weight * day.people_count],
               h, i + 1)

\* Menu(name=..., days=..., default_people_count=...): days holds the
\* identities of the Day objects; h is the heap they live in.
Menu(name, menu_days, default_people_count, h) ==
    MenuLoop([name |-> name, days |-> menu_days,
              default_people_count |-> default_people_count,
              calories |-> 0, proteins |-> 0, fats |-> 0, carbohydrates |-> 0,
              weight_per_person |-> 0, total_weight |-> 0], h, 1)

\* The people_count load_menus resolves for one day entry: the menu's
\* default for a plain name, the entry's own count for a {name: count} entry.
\* Variant: the count the Day was defined with in the registry.
ResolveCountRegistry(entry, default_people_count, original_day) ==
    original_day.people_count
ResolveCount(entry, default_people_count, original_day) ==
    IF entry.people_count = Absent THEN default_people_count
    ELSE entry.people_count[1]

\* What load_menus does with the resolved Day: a copy with the count, as a
\* new object (id Len(h) + 1); the original is left as it is.
\* [heap, id]: the heap afterwards and the object the menu stores.
\* Variant: original_day.people_count = people_count, the same object stored.
PlaceDayInPlace(h, id, people_count) ==
    [heap |-> [h EXCEPT ![id] = [@ EXCEPT !.people_count = people_count]],
     id |-> id]
PlaceDay(h, id, people_count) ==
    [heap |-> Append(h, replace(h[id], people_count)), id |-> Len(h) + 1]

\* The loop over one menu's day entries: [heap, ids] or the first error.
RECURSIVE menu_days_loop(_, _, _, _, _, _)
menu_days_loop(entries, default_people_count, dayreg, i, h, ids) ==
    IF i > Len(entries) THEN [heap |-> h, ids |-> ids]
    ELSE LET e == entries[i]
         IN  IF e.people_count # Absent /\ e.people_count[1] < 1 THEN ValueError
             ELSE IF e.day \notin DOMAIN dayreg THEN ValueError
             ELSE LET people_count ==
                          ResolveCount(e, default_people_count, h[dayreg[e.day]])
                      placed == PlaceDay(h, dayreg[e.day], people_count)
                  IN  menu_days_loop(entries, default_people_count, dayreg,
                                     i + 1, placed.heap,
                                     Append(ids, placed.id))

\* load_menus: file is the list of (menu name, menu data) entries of the
\* 'menus' mapping, menu data being [people_count, days], people_count
\* Absent or Given.  [heap, menus] or the first error.
\* Variant: a default count below 1 is taken as 1 and the menu is loaded.
RECURSIVE load_menus_loop_clamped(_, _, _, _, _)
load_menus_loop_clamped(file, dayreg, i, h, acc) ==
    IF i > Len(file) THEN [heap |-> h, menus |-> acc]
    ELSE LET m == file[i]
             given == OrDefault(m.people_count, DefaultPeopleCount)
             default_people_count == IF given < 1 THEN 1 ELSE given
         IN  LET r == menu_days_loop(m.days, default_people_count, dayreg,
                                     1, h, <<>>)
             IN  IF IsError(r) THEN r
                 ELSE load_menus_loop_clamped(file, dayreg, i + 1, r.heap,
                        Append(acc, Menu(m.name, r.ids,
                                         default_people_count, r.heap)))
RECURSIVE load_menus_loop(_, _, _, _, _)
load_menus_loop(file, dayreg, i, h, acc) ==
    IF i > Len(file) THEN [heap |-> h, menus |-> acc]
    ELSE LET m == file[i]
             default_people_count == OrDefault(m.people_count, DefaultPeopleCount)
         IN  IF default_people_count < 1 THEN ValueError
             ELSE LET r == menu_days_loop(m.days, default_people_count, dayreg,
                                          1, h, <<>>)
                  IN  IF IsError(r) THEN r
                      ELSE load_menus_loop(file, dayreg, i + 1, r.heap,
                             Append(acc, Menu(m.name, r.ids,
                                              default_people_count, r.heap)))

load_menus(file, dayreg, h) == load_menus_loop(file, dayreg, 1, h, <<>>)

\* ------------------------------------------------------------ BOM
\* The four meals of a day, in the order get_bom_for_menus visits them.
\* Variant: the everyday meal left out.
MealsOfDayNoEveryday(day) == <<day.breakfast, day.lunch, day.dinner>>
MealsOfDay(day) == <<day.breakfast, day.lunch, day.dinner, day.everyday>>

\* The innermost loop: the pairs of one meal, from pair i on.
\* Variant: bom[product.name] = quantity * day.people_count, the running
\* total dropped.
RECURSIVE bom_meal_overwrite(_, _, _, _)
bom_meal_overwrite(bom, meal, people_count, i) ==
    IF i > Len(meal.products) THEN bom
    ELSE LET product == meal.products[i].product
             quantity == meal.products[i].quantity
         IN  bom_meal_overwrite(Put(bom, product.name, quantity * people_count),
                                meal, people_count, i + 1)
RECURSIVE bom_meal(_, _, _, _)
bom_meal(bom, meal, people_count, i) ==
    IF i > Len(meal.products) THEN bom
    ELSE LET product == meal.products[i].product
             quantity == meal.products[i].quantity
         IN  bom_meal(Put(bom, product.name,
                          Get(bom, product.name, 0) + quantity * people_count),
                      meal, people_count, i + 1)

RECURSIVE bom_day(_, _, _)
bom_day(bom, day, k) ==
    IF k > Len(MealsOfDay(day)) THEN bom
    ELSE bom_day(bom_meal(bom, MealsOfDay(day)[k], day.people_count, 1),
                 day, k + 1)

RECURSIVE bom_menu(_, _, _, _)
bom_menu(bom, menu, h, j) ==
    IF j > Len(menu.days) THEN bom
    ELSE bom_menu(bom_day(bom, h[menu.days[j]], 1), menu, h, j + 1)

RECURSIVE bom_menus(_, _, _, _)
bom_menus(bom, ms, h, i) ==
    IF i > Len(ms) THEN bom
    ELSE bom_menus(bom_menu(bom, ms[i], h, 1), ms, h, i + 1)

\* get_bom_for_menus(menus): product name -> total quantity.
get_bom_for_menus(ms, h) == bom_menus(EmptyDict, ms, h, 1)

\* calculate_total_weight(menus): menu.total_weight added up over the menus,
\* from menu i on.
\* Variant: menu.weight_per_person added up.
RECURSIVE calculate_weight_per_person(_, _, _)
calculate_weight_per_person(ms, i, total_weight) ==
    IF i > Len(ms) THEN total_weight
    ELSE calculate_weight_per_person(ms, i + 1,
                                     total_weight + ms[i].weight_per_person)
RECURSIVE calculate_total_weight_loop(_, _, _)
calculate_total_weight_loop(ms, i, total_weight) ==
    IF i > Len(ms) THEN total_weight
    ELSE calculate_total_weight_loop(ms, i + 1, total_weight + ms[i].total_weight)

calculate_total_weight(ms) == calculate_total_weight_loop(ms, 1, 0)


\* ------------------------------------------------------------ grouping
KeyError == [error |-> "KeyError"]

\* The loop of group_products_by_category over the BOM entries still to
\* visit (names): an entry whose name the registry does not hold is passed
\* over; a category gets its key when its first product arrives.
\* Variant: an entry the registry does not hold is filed under the default
\* category instead of being passed over.
RECURSIVE group_loop_default_category(_, _, _, _)
group_loop_default_category(bom, reg, names, grouped_products) ==
    IF names = {} THEN grouped_products
    ELSE LET product_name == CHOOSE n \in names : TRUE
             quantity == bom[product_name]
             rest == names \ {product_name}
             category == IF product_name \in DOMAIN reg
                         THEN productCategoryMap[reg[product_name].group]
                         ELSE "Drugoe"
             inner == Get(grouped_products, category, EmptyDict)
         IN  group_loop_default_category(bom, reg, rest,
               Put(grouped_products, category,
                   Put(inner, product_name,
                       Get(inner, product_name, 0) + quantity)))

RECURSIVE group_loop(_, _, _, _)
group_loop(bom, reg, names, grouped_products) ==
    IF names = {} THEN grouped_products
    ELSE LET product_name == CHOOSE n \in names : TRUE
             quantity == bom[product_name]
             rest == names \ {product_name}
         IN  IF product_name \notin DOMAIN reg
             THEN group_loop(bom, reg, rest, grouped_products)
             ELSE LET category == productCategoryMap[reg[product_name].group]
                      inner == Get(grouped_products, category, EmptyDict)
                  IN  group_loop(bom, reg, rest,
                        Put(grouped_products, category,
                            Put(inner, product_name,
                                Get(inner, product_name, 0) + quantity)))

\* group_products_by_category(bom, products): category -> (name -> quantity).
group_products_by_category(bom, reg) ==
    group_loop(bom, reg, DOMAIN bom, EmptyDict)

\* display.print_grouped_products: grouped_products[pg] for every pg of
\* productGroups, in order; the lookup of a missing key raises KeyError.
\* The result is the list of the inner mappings printed, or the error.
RECURSIVE display_print_loop(_, _, _)
display_print_loop(grouped_products, i, printed) ==
    IF i > Len(productGroups) THEN printed
    ELSE IF productGroups[i] \notin DOMAIN grouped_products THEN KeyError
    ELSE display_print_loop(grouped_products, i + 1,
                            Append(printed, grouped_products[productGroups[i]]))

display_print_grouped_products(grouped_products) ==
    display_print_loop(grouped_products, 1, <<>>)

\* menus.print_grouped_products: grouped_products.get(pg, {}) for every pg.
menus_print_grouped_products(grouped_products) ==
    [i \in 1..Len(productGroups) |->
       Get(grouped_products, productGroups[i], EmptyDict)]

\* ------------------------------------------------------------ shopping lists
\* The result of a reporter: the grouped lists it handed to the printer, one
\* per menu as far as it got and the combined one if it got there, and the
\* exception that ended it, if any.
Lists(per_menu, combined, raised) ==
    [per_menu |-> per_menu, combined |-> combined, raised |-> raised]

\* The loop of display_bom over the menus, from menu i on.
RECURSIVE display_bom_loop(_, _, _, _, _)
display_bom_loop(ms, h, reg, i, per_menu) ==
    IF i > Len(ms) THEN Lists(per_menu, <<>>, None)
    ELSE LET bom == get_bom_for_menus(<<ms[i]>>, h)
             grouped_products == group_products_by_category(bom, reg)
             printed == display_print_grouped_products(grouped_products)
         IN  IF IsError(printed)
             THEN Lists(Append(per_menu, grouped_products), <<>>, printed)
             ELSE display_bom_loop(ms, h, reg, i + 1,
                                   Append(per_menu, grouped_products))

\* display_bom(menus, products) of display.py.
display_bom(ms, h, reg) ==
    LET r == display_bom_loop(ms, h, reg, 1, <<>>)
    IN  IF r.raised # None \/ ~(Len(ms) > 1) THEN r
        ELSE LET combined_bom == get_bom_for_menus(ms, h)
                 grouped_combined == group_products_by_category(combined_bom, reg)
                 printed == display_print_grouped_products(grouped_combined)
             IN  Lists(r.per_menu, <<grouped_combined>>,
                       IF IsError(printed) THEN printed ELSE None)

\* The shopping lists of main() in main.py: in the loop over the menus the
\* BOM is that of the whole list `menus`; the printer is the one of menus.py,
\* which raises nothing.
main_shopping_lists(ms, h, reg) ==
    Lists([i \in 1..Len(ms) |->
             group_products_by_category(get_bom_for_menus(ms, h), reg)],
          <<group_products_by_category(get_bom_for_menus(ms, h), reg)>>,
          None)

\* ------------------------------------------------------------ runs
Start ==
    /\ products = EmptyDict /\ meals = EmptyDict /\ everyday = None
    /\ heap = <<>> /\ days = EmptyDict /\ norms = None /\ menus = <<>>
    /\ out = None

\* ---- a client that builds one Meal from a loaded product registry
MealName == "meal"

InitMeal ==
    /\ pc = "products"
    /\ products \in {load_products(f) : f \in ProductFiles}
    /\ meals = EmptyDict /\ everyday = None
    /\ heap = <<>> /\ days = EmptyDict /\ norms = None /\ menus = <<>>
    /\ out = None

\* meal = Meal(name=MealName, products=items); kept if it was built.
ConstructMeal ==
    /\ pc = "products"
    /\ \E items \in ItemLists(products, MaxItems) :
         LET meal == Meal(MealName, items)
         IN  /\ out' = [call |-> "Meal", items |-> items, result |-> meal]
             /\ IF IsError(meal)
                THEN pc' = "failed" /\ meals' = meals
                ELSE pc' = "meals" /\ meals' = Put(meals, MealName, meal)
    /\ UNCHANGED <<products, everyday, heap, days, norms, menus>>

\* The meal files of these runs: a meal's mapping names at most two of the
\* products and of one name no product file has, each with a quantity.
FileProductNames == ProductNames \cup {"salt"}
FileQuantities == {-50, 150}

AnyDetails ==
    {<<>>}
    \cup {<<Pair(n, q)>> : n \in FileProductNames, q \in FileQuantities}
    \cup {<<Pair(n[1], q1), Pair(n[2], q2)>> :
             n \in {m \in FileProductNames \X FileProductNames : m[1] # m[2]},
             q1 \in FileQuantities, q2 \in FileQuantities}

AnyMealFiles ==
    {<<[name |-> "porridge", details |-> a], [name |-> "soup", details |-> b]>> :
        a \in AnyDetails, b \in AnyDetails}

\* meals = load_meals(file, products)
LoadAnyMeals ==
    /\ pc = "products"
    /\ \E f \in AnyMealFiles :
         LET r == load_meals(f, products)
         IN  /\ out' = [call |-> "load_meals", file |-> f, result |-> r]
             /\ IF IsError(r) THEN pc' = "failed" /\ meals' = meals
                ELSE pc' = "meals" /\ meals' = r
    /\ UNCHANGED <<products, everyday, heap, days, norms, menus>>

\* everyday = load_everyday(file, products)
LoadAnyEveryday ==
    /\ pc = "products"
    /\ \E f \in AnyDetails :
         LET r == load_everyday(f, products)
         IN  /\ out' = [call |-> "load_everyday", file |-> f, result |-> r]
             /\ IF IsError(r) THEN pc' = "failed" /\ everyday' = everyday
                ELSE pc' = "everyday" /\ everyday' = r
    /\ UNCHANGED <<products, meals, heap, days, norms, menus>>

NextMeal == ConstructMeal \/ LoadAnyMeals \/ LoadAnyEveryday

SpecMeal == InitMeal /\ [][NextMeal]_vars

\* ---- a client that builds one Day from loaded registries and checks it
\* The meal details of these runs (one meal's mapping product -> quantity).
DayDetails ==
    {<<>>, <<Pair("rice", 150)>>, <<Pair("nuts", 50)>>, <<Pair("rice", 250)>>,
     <<Pair("rice", 250), Pair("nuts", 250)>>,
     <<Pair("rice", 150), Pair("nuts", 250)>>}

EverydayDetails == {<<>>, <<Pair("nuts", 30)>>, <<Pair("rice", 250)>>}

DayMealFiles ==
    {<<[name |-> "porridge", details |-> a], [name |-> "soup", details |-> b]>> :
        a \in DayDetails, b \in DayDetails}

\* The rule sets of these runs: the defaults of DailyNorms, a lower set, a
\* set with min above max (dailyNorms.load_daily_norms accepts it), zeros.
NormsFiles ==
    {DailyNorms(2500, 3200, 55, 60, 290),
     DailyNorms(1000, 2000, 35, 5, 225),
     DailyNorms(3200, 2500, 100, 20, 700),
     DailyNorms(0, 0, 0, 0, 0)}

DayName == "day"

InitDay ==
    /\ pc = "everyday"
    /\ products \in {load_products(f) : f \in ProductFiles}
    /\ meals \in {load_meals(f, products) : f \in DayMealFiles}
    /\ everyday \in {load_everyday(d, products) : d \in EverydayDetails}
    /\ heap = <<>> /\ days = EmptyDict /\ norms = None /\ menus = <<>>
    /\ out = None

\* The meal references a client may pass: a meal of the registry by its name,
\* or nothing (None).
NoMeal == "none"
MealArg(k) == IF k \in DOMAIN meals THEN meals[k] ELSE None

\* The arguments that are None, by parameter name.
AbsentArgs(breakfast, lunch, dinner, evd) ==
    {k \in {"breakfast", "lunch", "dinner", "everyday"} :
        [breakfast |-> breakfast, lunch |-> lunch, dinner |-> dinner,
         everyday |-> evd][k] = None}

\* days[DayName] = Day(name=DayName, breakfast=..., lunch=..., dinner=...,
\*                     everyday=..., people_count=n)
ConstructDay ==
    /\ pc = "everyday"
    /\ \E b \in DOMAIN meals \cup {NoMeal}, l \in DOMAIN meals \cup {NoMeal},
          d \in DOMAIN meals \cup {NoMeal}, e \in {everyday, None},
          n \in 0..MaxPeople :
         LET day == Day(DayName, MealArg(b), MealArg(l), MealArg(d), e, n)
         IN  /\ out' = [call |-> "Day", people_count |-> n,
                        absent |-> AbsentArgs(MealArg(b), MealArg(l),
                                              MealArg(d), e),
                        result |-> day]
             /\ IF IsError(day)
                THEN pc' = "failed" /\ heap' = heap /\ days' = days
                ELSE /\ pc' = "days"
                     /\ heap' = Append(heap, day)
                     /\ days' = Put(days, DayName, Len(heap) + 1)
    /\ UNCHANGED <<products, meals, everyday, norms, menus>>

\* The days files of these runs: one day, each meal key left out or naming
\* a meal of the registry.
OneDayFiles ==
    {<<[name |-> DayName, breakfast |-> b, lunch |-> l, dinner |-> d,
        people_count |-> Absent]>> :
        b \in {Absent} \cup {Given(k) : k \in DOMAIN meals},
        l \in {Absent} \cup {Given(k) : k \in DOMAIN meals},
        d \in {Absent} \cup {Given(k) : k \in DOMAIN meals}}

\* days = load_days(file, meals, e), the caller passing the everyday meal or
\* None.
LoadOneDay ==
    /\ pc = "everyday"
    /\ \E f \in OneDayFiles, e \in {everyday, None} :
         LET r == load_days(f, meals, e, heap)
         IN  IF IsError(r)
             THEN /\ pc' = "failed" /\ UNCHANGED <<heap, days>>
                  /\ out' = [call |-> "load_days", file |-> f, everyday |-> e,
                             result |-> r]
             ELSE /\ pc' = "loaded" /\ heap' = r.heap /\ days' = r.days
                  /\ out' = [call |-> "load_days", file |-> f, everyday |-> e,
                             result |-> r.days]
    /\ UNCHANGED <<products, meals, everyday, norms, menus>>

\* warnings = days[DayName].check_rules(rules)
CheckRules ==
    /\ pc = "days"
    /\ \E rules \in NormsFiles :
         /\ norms' = rules
         /\ out' = [call |-> "check_rules", day |-> days[DayName],
                    result |-> check_rules(heap[days[DayName]], rules)]
    /\ pc' = "checked"
    /\ UNCHANGED <<products, meals, everyday, heap, days, menus>>

NextDay == ConstructDay \/ LoadOneDay \/ CheckRules

SpecDay == InitDay /\ [][NextDay]_vars

\* ---- a client that groups a BOM by category and prints the groups
\* The BOMs and the registries of these runs: a BOM names some of three
\* products, a registry holds some of them, each in one of these groups.
GroupNames == {"rice", "nuts", "salt"}
BomQuantities == {100, 250}
GroupsUsed == {"GRAINS", "MEAT", "MILK", "SAUSAGE"}

Boms == UNION {[S -> BomQuantities] : S \in SUBSET GroupNames}

GroupRegistries ==
    UNION {{[n \in S |-> Product(n, 100, 10, 10, 10, Member(g[n]), 1000, 0, 100)] :
               g \in [S -> GroupsUsed]} : S \in SUBSET GroupNames}

InitGroup ==
    /\ pc = "bom"
    /\ products \in GroupRegistries
    /\ out \in {[call |-> "bom", result |-> b] : b \in Boms}
    /\ meals = EmptyDict /\ everyday = None
    /\ heap = <<>> /\ days = EmptyDict /\ norms = None /\ menus = <<>>

\* grouped_products = group_products_by_category(bom, products)
GroupProducts ==
    /\ pc = "bom"
    /\ out' = [call |-> "group_products_by_category", bom |-> out.result,
               result |-> group_products_by_category(out.result, products)]
    /\ pc' = "grouped"
    /\ UNCHANGED <<products, meals, everyday, heap, days, norms, menus>>

\* print_grouped_products(grouped_products) of display.py
DisplayPrintGrouped ==
    /\ pc = "grouped"
    /\ LET r == display_print_grouped_products(out.result)
       IN  /\ out' = [call |-> "display.print_grouped_products",
                      grouped |-> out.result, result |-> r]
           /\ pc' = IF IsError(r) THEN "failed" ELSE "printed"
    /\ UNCHANGED <<products, meals, everyday, heap, days, norms, menus>>

\* print_grouped_products(grouped_products) of menus.py
MenusPrintGrouped ==
    /\ pc = "grouped"
    /\ out' = [call |-> "menus.print_grouped_products",
               grouped |-> out.result,
               result |-> menus_print_grouped_products(out.result)]
    /\ pc' = "printed"
    /\ UNCHANGED <<products, meals, everyday, heap, days, norms, menus>>

NextGroup == GroupProducts \/ DisplayPrintGrouped \/ MenusPrintGrouped

SpecGroup == InitGroup /\ [][NextGroup]_vars

\* ---- load_configuration, then the shopping list
\* The files of these runs.
MealFiles ==
    {<<[name |-> "porridge", details |-> <<Pair("rice", 150)>>],
       [name |-> "soup", details |-> <<Pair("rice", 250), Pair("nuts", 250)>>],
       [name |-> "stew", details |-> <<Pair("nuts", 50)>>]>>}

EverydayFiles == {<<Pair("nuts", 30)>>}

DayFiles ==
    {<<[name |-> "d1", breakfast |-> Given("porridge"),
        lunch |-> Given("soup"), dinner |-> Given("stew"),
        people_count |-> Given(2)],
       [name |-> "d2", breakfast |-> Given("soup"), lunch |-> Given("soup"),
        dinner |-> Given("porridge"), people_count |-> Absent]>>}

\* A day entry of a menu: a plain day name (people_count Absent) or
\* {name: count}.  A menu's own people_count: Absent or Given.
EntryCounts == {Absent, Given(3)}
MenuCounts == {Absent, Given(2)}
DayEntries(dayreg) == [day : DOMAIN dayreg, people_count : EntryCounts]

\* Every list of at most n day entries.
RECURSIVE EntryLists(_, _)
EntryLists(dayreg, n) ==
    IF n = 0 THEN {<<>>}
    ELSE LET shorter == EntryLists(dayreg, n - 1)
         IN  shorter \cup {Append(l, e) : l \in {s \in shorter : Len(s) = n - 1},
                                          e \in DayEntries(dayreg)}

RECURSIVE EntriesIn(_)
EntriesIn(file) ==
    IF file = <<>> THEN 0 ELSE Len(Head(file).days) + EntriesIn(Tail(file))

\* Every menus file of exactly k menus with at most n day entries in all.
RECURSIVE MenuFilesOf(_, _, _)
MenuFilesOf(dayreg, k, n) ==
    IF k = 0 THEN {<<>>}
    ELSE UNION {
           {Append(f, [name |-> ToString(k), people_count |-> c, days |-> l]) :
               c \in MenuCounts, l \in EntryLists(dayreg, n - EntriesIn(f))} :
           f \in MenuFilesOf(dayreg, k - 1, n)}

MenuFiles(dayreg) ==
    UNION {MenuFilesOf(dayreg, k, MaxEntries) : k \in 0..MaxMenus}

\* The files of these runs that a load step must refuse: a file above with
\* one thing in one place changed.
\* A meals file or an everyday file: one pair naming a product no products
\* file has.
UnknownProductName == "salt"

BadMealFiles ==
    UNION {
      UNION {{[f EXCEPT ![k].details[i].product = UnknownProductName] :
                 i \in 1..Len(f[k].details)} : k \in 1..Len(f)} :
      f \in MealFiles}

BadEverydayFiles ==
    UNION {{[f EXCEPT ![i].product = UnknownProductName] : i \in 1..Len(f)} :
           f \in EverydayFiles}

\* A days file: one meal key left out or naming a meal no meals file has, or
\* a people_count below 1.
UnknownMealName == "tea"
UnknownDayName == "d9"
BadCounts == {Given(0), Given(-1)}
MealKeys == {"breakfast", "lunch", "dinner"}

BadDayFiles ==
    UNION {
      {[f EXCEPT ![i][k] = v] :
          i \in 1..Len(f), k \in MealKeys, v \in {Absent, Given(UnknownMealName)}}
      \cup {[f EXCEPT ![i].people_count = c] : i \in 1..Len(f), c \in BadCounts} :
      f \in DayFiles}

\* The places of a menus file: <<menu, 0>> is the menu's own people_count,
\* <<menu, entry>> a day entry.
Places(file) ==
    UNION {{<<i, j>> : j \in 0..Len(file[i].days)} : i \in 1..Len(file)}

WithCount(file, p, c) ==
    IF p[2] = 0 THEN [file EXCEPT ![p[1]].people_count = c]
    ELSE [file EXCEPT ![p[1]].days[p[2]].people_count = c]

WithDay(file, p, name) == [file EXCEPT ![p[1]].days[p[2]].day = name]

\* The menus files made of a file above by one change in its last menu:
\* the menu's people_count below 1, or its last entry with a count below 1
\* or naming a day no days file has.
BadMenuCounts == {Given(0)}

BadMenuFiles(f) ==
    IF f = <<>> THEN {}
    ELSE LET i == Len(f)
             j == Len(f[i].days)
         IN  {WithCount(f, <<i, 0>>, c) : c \in BadMenuCounts}
             \cup (IF j = 0 THEN {}
                   ELSE {WithCount(f, <<i, j>>, c) : c \in BadMenuCounts}
                        \cup {WithDay(f, <<i, j>>, UnknownDayName)})

\* A products file: one number below its range, or a required key left out.
BadProductFiles ==
    UNION {{[f EXCEPT ![1].details.calories = Given(-1)],
            [f EXCEPT ![2].details.packageWeight = Given(0)],
            [f EXCEPT ![2].details.fats = Absent]} : f \in ProductFiles}

\* The 'rules' of the menu file, and rule sets the load step must refuse:
\* min above max, a negative norm, a key left out.
RulesFiles == {Rules(Given(2500), Given(3200), Given(55), Given(60), Given(290))}

BadRulesFiles ==
    {Rules(Given(3200), Given(2500), Given(55), Given(60), Given(290)),
     Rules(Given(2500), Given(3200), Given(-55), Given(60), Given(290)),
     Rules(Given(2500), Given(3200), Given(55), Absent, Given(290))}

Init == pc = "start" /\ Start

\* The except clause of load_configuration: the error is reported and the
\* process ends with sys.exit(1); nothing more runs.  The model keeps which
\* call failed on which file.
\* Variant: the error is reported and the run stays where it was, free to
\* load the stage again.
FailOnAndStay(call, file, e) ==
    /\ pc' = pc
    /\ out' = [call |-> call, file |-> file, result |-> e, exit |-> 1]
FailOn(call, file, e) ==
    /\ pc' = "failed"
    /\ out' = [call |-> call, file |-> file, result |-> e, exit |-> 1]

LoadProducts ==
    /\ pc = "start"
    /\ \E f \in ProductFiles \cup BadProductFiles :
         LET r == load_products(f)
         IN  IF IsError(r) THEN FailOn("load_products", f, r) /\ products' = products
             ELSE /\ products' = r /\ pc' = "products"
                  /\ out' = [call |-> "load_products", file |-> f, result |-> r]
    /\ UNCHANGED <<meals, everyday, heap, days, norms, menus>>

LoadMeals ==
    /\ pc = "products"
    /\ \E f \in MealFiles \cup BadMealFiles :
         LET r == load_meals(f, products)
         IN  IF IsError(r) THEN FailOn("load_meals", f, r) /\ meals' = meals
             ELSE /\ meals' = r /\ pc' = "meals"
                  /\ out' = [call |-> "load_meals", file |-> f, result |-> r]
    /\ UNCHANGED <<products, everyday, heap, days, norms, menus>>

LoadEveryday ==
    /\ pc = "meals"
    /\ \E f \in EverydayFiles \cup BadEverydayFiles :
         LET r == load_everyday(f, products)
         IN  IF IsError(r)
             THEN FailOn("load_everyday", f, r) /\ everyday' = everyday
             ELSE /\ everyday' = r /\ pc' = "everyday"
                  /\ out' = [call |-> "load_everyday", file |-> f, result |-> r]
    /\ UNCHANGED <<products, meals, heap, days, norms, menus>>

LoadDays ==
    /\ pc = "everyday"
    /\ \E f \in DayFiles \cup BadDayFiles :
         LET r == load_days(f, meals, everyday, heap)
         IN  IF IsError(r)
             THEN FailOn("load_days", f, r) /\ UNCHANGED <<heap, days>>
             ELSE /\ heap' = r.heap /\ days' = r.days /\ pc' = "days"
                  /\ out' = [call |-> "load_days", file |-> f, result |-> r.days]
    /\ UNCHANGED <<products, meals, everyday, norms, menus>>

\* daily_norms = load_daily_norms(args.menu), the one of daily_norms.py
LoadNorms ==
    /\ pc = "days"
    /\ \E f \in RulesFiles \cup BadRulesFiles :
         LET r == daily_norms_load_daily_norms(f)
         IN  IF IsError(r) THEN FailOn("load_daily_norms", f, r) /\ norms' = norms
             ELSE /\ norms' = r /\ pc' = "norms"
                  /\ out' = [call |-> "load_daily_norms", file |-> f,
                             result |-> r]
    /\ UNCHANGED <<products, meals, everyday, heap, days, menus>>

\* menus = load_menus(args.menu, days); out keeps the file that was read.
LoadMenus ==
    /\ pc = "norms"
    /\ \E g \in MenuFiles(days) : \E f \in {g} \cup BadMenuFiles(g) :
         LET r == load_menus(f, days, heap)
         IN  IF IsError(r)
             THEN FailOn("load_menus", f, r) /\ UNCHANGED <<heap, menus>>
             ELSE /\ heap' = r.heap /\ menus' = r.menus /\ pc' = "menus"
                  /\ out' = [call |-> "load_menus", file |-> f]
    /\ UNCHANGED <<products, meals, everyday, days, norms>>

\* bom = get_bom_for_menus(menus), or get_bom_for_menus([menu]) for one menu,
\* and calculate_total_weight of the same list (main.py, lines 85 and 89).
GetBom ==
    /\ pc = "menus"
    /\ \E arg \in {menus} \cup {<<menus[i]>> : i \in 1..Len(menus)} :
         out' = [call |-> "get_bom_for_menus", menus |-> arg,
                 result |-> get_bom_for_menus(arg, heap),
                 total_weight |-> calculate_total_weight(arg)]
    /\ pc' = "bom"
    /\ UNCHANGED <<products, meals, everyday, heap, days, norms, menus>>

\* display_bom(config.menus, config.products)
DisplayBom ==
    /\ pc = "menus"
    /\ LET r == display_bom(menus, heap, products)
       IN  /\ out' = [call |-> "display_bom", result |-> r]
           /\ pc' = IF r.raised # None THEN "failed" ELSE "listed"
    /\ UNCHANGED <<products, meals, everyday, heap, days, norms, menus>>

\* The shopping lists of main() (main.py, lines 75-87) for the loaded menus.
MainShoppingLists ==
    /\ pc = "menus"
    /\ out' = [call |-> "main",
               result |-> main_shopping_lists(menus, heap, products)]
    /\ pc' = "listed"
    /\ UNCHANGED <<products, meals, everyday, heap, days, norms, menus>>

Next ==
    \/ LoadProducts \/ LoadMeals \/ LoadEveryday \/ LoadDays \/ LoadNorms
    \/ LoadMenus \/ GetBom \/ DisplayBom \/ MainShoppingLists

Spec == Init /\ [][Next]_vars

\* ---- a client that loads any products file, or builds one Product
\* What a file may give one key of a product's mapping.
NutritionKeys == {Absent, Given(-1), Given(0), Given(200)}
WeightKeys == {Absent, Given(-5), Given(0), Given(500)}
CostKeys == {Absent, Given(-1), Given(0), Given(50)}
PercentageKeys == {Absent, Given(-1), Given(0), Given(100), Given(101)}

\* The group strings of these runs: the value of every member, other
\* spellings of members, and strings that name nothing.
UnknownLabels == {"Spices", ""}
GroupLabels ==
    {CategoryValue[g] : g \in ProductCategory}
    \cup {"grains", "tourist shop", "Tourist_Shop"} \cup UnknownLabels
GroupKeys == {Absent} \cup {Given(l) : l \in GroupLabels}

NutritionFields == {"calories", "proteins", "fats", "carbohydrates"}

BaseDetails ==
    Details(Given(200), Given(7), Given(1), Given(45), Given("Grains"),
            Given(1000), Given(50), Given(100))

\* One of packageWeight, costPerPackage, percentage with what a file gives it.
PackagingChanges ==
    ({"packageWeight"} \X WeightKeys) \cup ({"costPerPackage"} \X CostKeys)
    \cup ({"percentage"} \X PercentageKeys)

\* A product's mapping: BaseDetails with one nutrition key, the group and one
\* of the other keys as a file may give them.
AnyProductDetails ==
    {[[[BaseDetails EXCEPT ![k] = v] EXCEPT !.group = g] EXCEPT ![m[1]] = m[2]] :
        k \in NutritionFields, v \in NutritionKeys, g \in GroupKeys,
        m \in PackagingChanges}

PairDetails ==
    {BaseDetails,
     [BaseDetails EXCEPT !.calories = Given(-1)],
     [BaseDetails EXCEPT !.group = Given("Spices")],
     [BaseDetails EXCEPT !.group = Given("Nuts"), !.packageWeight = Given(500)]}

\* The documents: one product, or two entries whose names may be the same.
AnyProductFiles ==
    {<<[name |-> "rice", details |-> d]>> : d \in AnyProductDetails}
    \cup {<<[name |-> a, details |-> d1], [name |-> b, details |-> d2]>> :
             a \in ProductNames, b \in ProductNames,
             d1 \in PairDetails, d2 \in PairDetails}

InitProduct == pc = "start" /\ Start

\* products = load_products(file)
LoadAnyProducts ==
    /\ pc = "start"
    /\ \E f \in AnyProductFiles :
         LET r == load_products(f)
         IN  /\ out' = [call |-> "load_products", file |-> f, result |-> r]
             /\ IF IsError(r) THEN pc' = "failed" /\ products' = products
                ELSE pc' = "products" /\ products' = r
    /\ UNCHANGED <<meals, everyday, heap, days, norms, menus>>

\* products["rice"] = Product(name="rice", ..., group=group, ...), the group
\* a string or a member of the enum.
ConstructProduct ==
    /\ pc = "start"
    /\ \E group \in {Member(g) : g \in ProductCategory}
                    \cup {Label(l) : l \in GroupLabels},
          calories \in {-1, 200}, packageWeight \in {0, 500} :
         LET product == Product("rice", calories, 7, 1, 45, group,
                                packageWeight, DefaultCostPerPackage,
                                DefaultPercentage)
         IN  /\ out' = [call |-> "Product", group |-> group,
                        calories |-> calories,
                        packageWeight |-> packageWeight, result |-> product]
             /\ IF IsError(product) THEN pc' = "failed" /\ products' = products
                ELSE pc' = "products" /\ products' = Put(products, "rice", product)
    /\ UNCHANGED <<meals, everyday, heap, days, norms, menus>>

NextProduct == LoadAnyProducts \/ ConstructProduct

SpecProduct == InitProduct /\ [][NextProduct]_vars

\* ---- a client that loads the daily norms of any menu file
\* What a file may give one key of 'rules'.
CalorieKeys == {Absent, Given(-1), Given(2500), Given(3200)}
GramKeys == {Absent, Given(-1), Given(60)}

AnyRulesFiles ==
    {Rules(a, b, c, d, e) : a \in CalorieKeys, b \in CalorieKeys,
                            c \in GramKeys, d \in GramKeys, e \in GramKeys}

InitNorms == pc = "start" /\ Start

\* daily_norms = load_daily_norms(file), as config_loader.py imports it
LoadDailyNorms ==
    /\ pc = "start"
    /\ \E f \in AnyRulesFiles :
         LET r == daily_norms_load_daily_norms(f)
         IN  /\ out' = [call |-> "daily_norms.load_daily_norms", file |-> f,
                        result |-> r]
             /\ IF IsError(r) THEN pc' = "failed" /\ norms' = norms
                ELSE pc' = "norms" /\ norms' = r
    /\ UNCHANGED <<products, meals, everyday, heap, days, menus>>

\* daily_norms = load_daily_norms(file), as main.py imports it
MainLoadDailyNorms ==
    /\ pc = "start"
    /\ \E f \in AnyRulesFiles :
         /\ out' = [call |-> "dailyNorms.load_daily_norms", file |-> f,
                    result |-> dailyNorms_load_daily_norms(f)]
         /\ norms' = dailyNorms_load_daily_norms(f)
    /\ pc' = "norms"
    /\ UNCHANGED <<products, meals, everyday, heap, days, menus>>

NextNorms == LoadDailyNorms \/ MainLoadDailyNorms

SpecNorms == InitNorms /\ [][NextNorms]_vars

\* ------------------------------------------------------------ claims
\* The sum over the pairs of a list of f(pair), as the claims state it.
RECURSIVE SumSeq(_)
SumSeq(xs) == IF xs = <<>> THEN 0 ELSE Head(xs) + SumSeq(Tail(xs))

SumOver(items, f(_)) == SumSeq([i \in 1..Len(items) |-> f(items[i])])

MealBuilt == pc = "meals" /\ out # None /\ out.call = "Meal"

\* C1: a Meal built from pairs with all quantities >= 0 has each nutrition
\* figure equal to the sum over the pairs of product.<nutrient> * quantity
\* / 100, exactly (the figure times 100 is the sum of the products), every
\* pair counted, also a pair whose product occurs in another pair.
C1_MealNutritionIsSum ==
    (MealBuilt /\ \A i \in 1..Len(out.items) : out.items[i].quantity >= 0) =>
        LET m == meals[MealName]
            cal(it) == it.product.calories * it.quantity
            pro(it) == it.product.proteins * it.quantity
            fat(it) == it.product.fats * it.quantity
            car(it) == it.product.carbohydrates * it.quantity
        IN  /\ m.products = out.items
            /\ 100 * m.calories = NutrScale * SumOver(out.items, cal)
            /\ 100 * m.proteins = NutrScale * SumOver(out.items, pro)
            /\ 100 * m.fats = NutrScale * SumOver(out.items, fat)
            /\ 100 * m.carbohydrates = NutrScale * SumOver(out.items, car)

\* C1 witness: a Meal with one product in two pairs and a figure that is no
\* whole number (333 * 50 / 100 = 166.5).
C1_Witness ==
    /\ MealBuilt
    /\ \E i, j \in 1..Len(out.items) :
         /\ i # j
         /\ out.items[i].product = out.items[j].product
         /\ out.items[i].quantity > 0 /\ out.items[j].quantity > 0
    /\ meals[MealName].calories % NutrScale # 0

\* The same pairs with every nutrition value of every product set to 0.
NoNutrition(items) ==
    [i \in 1..Len(items) |->
       [product |-> [items[i].product EXCEPT !.calories = 0, !.proteins = 0,
                        !.fats = 0, !.carbohydrates = 0],
        quantity |-> items[i].quantity]]

\* C2: a Meal's weight is the sum over its pairs of packageWeight * quantity
\* / 1000, and is the weight of the meal built from the same pairs with the
\* products' nutrition values changed.
C2_MealWeightIsPackageSum ==
    MealBuilt =>
        LET m == meals[MealName]
            w(it) == it.product.packageWeight * it.quantity
        IN  /\ 1000 * m.weight = WeightScale * SumOver(m.products, w)
            /\ m.weight = Meal(MealName, NoNutrition(m.products)).weight

\* C2 witness: a Meal of two products of different package weights.
C2_Witness ==
    /\ MealBuilt
    /\ \E i, j \in 1..Len(out.items) :
         /\ out.items[i].product.packageWeight
              # out.items[j].product.packageWeight
         /\ out.items[i].quantity > 0 /\ out.items[j].quantity > 0
    /\ meals[MealName].weight > 0


DayBuilt == pc = "days" /\ out # None /\ out.call = "Day"
TheDay == heap[days[DayName]]

\* The Day of claim C3: breakfast, lunch and dinner are one meal of the
\* single pair (P, 150) with P.packageWeight = 1000, everyday is empty.
C3_Case ==
    /\ DayBuilt
    /\ TheDay.breakfast = TheDay.lunch /\ TheDay.lunch = TheDay.dinner
    /\ Len(TheDay.breakfast.products) = 1
    /\ TheDay.breakfast.products[1].quantity = 150
    /\ TheDay.breakfast.products[1].product.packageWeight = 1000
    /\ TheDay.everyday.products = <<>>

Figures == {"calories", "proteins", "fats", "carbohydrates", "weight"}

\* C4: each figure of a Day is the sum of that figure over its four meals,
\* and is the same for every people_count the Day is given.
C4_DayIsSumOfMeals ==
    DayBuilt =>
        \A f \in Figures :
            /\ TheDay[f] = TheDay.breakfast[f] + TheDay.lunch[f]
                           + TheDay.dinner[f] + TheDay.everyday[f]
            /\ \A n \in 1..(MaxPeople + 1) : replace(TheDay, n)[f] = TheDay[f]

\* C4 witness: a Day for two people whose meals all contribute.
C4_Witness ==
    /\ DayBuilt
    /\ TheDay.people_count = 2
    /\ TheDay.breakfast.calories > 0
    /\ TheDay.lunch.calories > TheDay.breakfast.calories
    /\ TheDay.dinner.calories > 0
    /\ TheDay.everyday.calories > 0

Checked == pc = "checked" /\ out # None /\ out.call = "check_rules"
CheckedDay == heap[out.day]

WarningOrder ==
    <<"calories_low", "calories_high", "proteins_low", "fats_low",
      "carbohydrates_low">>

\* The norm condition a warning kind stands for is violated.
Violated(kind, day, rules) ==
    CASE kind = "calories_low" -> day.calories < rules.daily_calories_min
      [] kind = "calories_high" -> day.calories > rules.daily_calories_max
      [] kind = "proteins_low" -> day.proteins < rules.daily_protein
      [] kind = "fats_low" -> day.fats < rules.daily_fat
      [] kind = "carbohydrates_low" -> day.carbohydrates < rules.daily_carbs

Kinds(warnings) == [i \in 1..Len(warnings) |-> warnings[i].kind]

\* C7: check_rules returns one warning per violated condition and none for
\* a satisfied one, in the fixed order; so it returns the empty list iff all
\* five conditions hold, and a figure above its minimum is never warned of.
C7_WarningsAreTheViolations ==
    Checked =>
        LET IsViolated(kind) == Violated(kind, CheckedDay, norms)
        IN  /\ Kinds(out.result) = SelectSeq(WarningOrder, IsViolated)
            /\ (out.result = <<>>) <=>
                   \A i \in 1..Len(WarningOrder) : ~IsViolated(WarningOrder[i])

\* C7 witness: calories too high and fats too low are reported, in that
\* order, for a Day whose proteins are above the norm.
C7_Witness ==
    /\ Checked
    /\ Kinds(out.result) = <<"calories_high", "fats_low">>
    /\ CheckedDay.proteins > norms.daily_protein

\* The amounts the calorie warnings are about.
Shortfall == norms.daily_calories_min - CheckedDay.calories
Excess == CheckedDay.calories - norms.daily_calories_max

HasWarning(kind, amount) ==
    \E i \in 1..Len(out.result) :
        out.result[i].kind = kind /\ out.result[i].amount = amount
NoWarning(kind) == \A i \in 1..Len(out.result) : out.result[i].kind # kind

\* The scenario of claim C8: norms min=2500, max=3200.
C8_Scenario ==
    (/\ norms.daily_calories_min = Nutr(2500)
     /\ norms.daily_calories_max = Nutr(3200)) =>
        /\ CheckedDay.calories = Nutr(2000) =>
               HasWarning("calories_low", 500) /\ NoWarning("calories_high")
        /\ CheckedDay.calories = Nutr(3500) =>
               HasWarning("calories_high", 300) /\ NoWarning("calories_low")
        /\ CheckedDay.calories = Nutr(2800) =>
               NoWarning("calories_low") /\ NoWarning("calories_high")

\* C8 as stated: the calorie warnings report the exact shortfall and the
\* exact overage.
C8_Original ==
    Checked =>
        /\ \A i \in 1..Len(out.result) :
             /\ out.result[i].kind = "calories_low" =>
                    Nutr(out.result[i].amount) = Shortfall
             /\ out.result[i].kind = "calories_high" =>
                    Nutr(out.result[i].amount) = Excess
        /\ C8_Scenario

\* a is x (in units of 1/NutrScale) rounded to a whole number, a tie going
\* to the even one.
IsRounded(a, x) ==
    /\ 2 * (Nutr(a) - x) <= NutrScale
    /\ 2 * (x - Nutr(a)) <= NutrScale
    /\ (2 * (Nutr(a) - x) = NutrScale \/ 2 * (x - Nutr(a)) = NutrScale)
           => a % 2 = 0

\* C8 amended: the calorie deficiency warning reports the shortfall
\* daily_calories_min - day.calories and the excess warning the overage
\* day.calories - daily_calories_max, each rounded to a whole number (":.0f"),
\* so exactly when it is whole; the scenario holds as stated.
C8_AmountsRounded ==
    Checked =>
        /\ \A i \in 1..Len(out.result) :
             /\ out.result[i].kind = "calories_low" =>
                    IsRounded(out.result[i].amount, Shortfall)
             /\ out.result[i].kind = "calories_high" =>
                    IsRounded(out.result[i].amount, Excess)
        /\ C8_Scenario

\* C8 witness: the Day of 2000 calories under min=2500, max=3200.
C8_Witness ==
    /\ Checked
    /\ norms.daily_calories_min = Nutr(2500)
    /\ norms.daily_calories_max = Nutr(3200)
    /\ CheckedDay.calories = Nutr(2000)
    /\ HasWarning("calories_low", 500)


MenusLoaded == pc \in {"menus", "bom"}

\* The Day objects a menu holds.
DaysOf(menu) == [j \in 1..Len(menu.days) |-> heap[menu.days[j]]]

\* C5: a Menu's total_weight is the sum over its days of the day's weight
\* times that day's own people_count.
C5_TotalWeightPerDayCount ==
    MenusLoaded =>
        \A i \in 1..Len(menus) :
            LET ds == DaysOf(menus[i])
            IN  menus[i].total_weight =
                    SumSeq([j \in 1..Len(ds) |-> ds[j].weight * ds[j].people_count])

\* C5 witness: a menu of two days with different counts, whose total weight
\* is not its per-person weight times either count nor times its default.
C5_Witness ==
    /\ MenusLoaded
    /\ \E i \in 1..Len(menus) :
         LET ds == DaysOf(menus[i])
         IN  /\ Len(ds) = 2
             /\ ds[1].people_count # ds[2].people_count
             /\ \A c \in {ds[1].people_count, ds[2].people_count,
                          menus[i].default_people_count} :
                    menus[i].total_weight # menus[i].weight_per_person * c

BomDone == pc = "bom" /\ out # None /\ out.call = "get_bom_for_menus"

\* The four meals of a day, as claim C6 names them.
FourMeals(day) == <<day.breakfast, day.lunch, day.dinner, day.everyday>>

\* The places of the (product, quantity) pairs of a list of menus:
\* <<menu, day, meal, pair>>.
PairPlaces(ms) ==
    UNION {UNION {UNION {
        {<<i, j, k, l>> :
            l \in 1..Len(FourMeals(heap[ms[i].days[j]])[k].products)} :
        k \in 1..4} : j \in 1..Len(ms[i].days)} : i \in 1..Len(ms)}

PairAt(ms, pl) == FourMeals(heap[ms[pl[1]].days[pl[2]]])[pl[3]].products[pl[4]]

RECURSIVE SumPlaces(_, _)
SumPlaces(ms, S) ==
    IF S = {} THEN 0
    ELSE LET pl == CHOOSE x \in S : TRUE
         IN  PairAt(ms, pl).quantity * heap[ms[pl[1]].days[pl[2]]].people_count
             + SumPlaces(ms, S \ {pl})

\* C6: the BOM of a list of menus maps each product name that occurs in a
\* pair of a meal of a day of a menu to the sum, over those pairs, of
\* quantity * day.people_count, and has no other key.
C6_BomIsScaledSum ==
    BomDone =>
        LET ms == out.menus
            places == PairPlaces(ms)
            named(n) == {pl \in places : PairAt(ms, pl).product.name = n}
        IN  /\ DOMAIN out.result = {PairAt(ms, pl).product.name : pl \in places}
            /\ \A n \in DOMAIN out.result :
                   out.result[n] = SumPlaces(ms, named(n))

\* C6 witness: the BOM of two menus with one day each, of different counts.
C6_Witness ==
    /\ BomDone
    /\ Len(out.menus) = 2
    /\ Len(out.menus[1].days) = 1 /\ Len(out.menus[2].days) = 1
    /\ heap[out.menus[1].days[1]].people_count
         # heap[out.menus[2].days[1]].people_count
    /\ "nuts" \in DOMAIN out.result


\* The count a day entry of a menus file asks for, as claim C9 states it:
\* the entry's explicit count, else the menu's default.
Asked(entry, menu) ==
    IF entry.people_count # Absent THEN entry.people_count[1]
    ELSE menu.default_people_count

JustLoaded == pc = "menus" /\ out # None /\ out.call = "load_menus"

\* C9: every Day a loaded Menu holds has the explicit count of its entry if
\* the entry gives one and the menu's default otherwise, whatever the
\* people_count of the Day in the registry; the menu's total_weight is the
\* sum of the registry Days' per-person weights times those counts.
C9_EntryCountOverridesRegistry ==
    JustLoaded =>
        /\ Len(menus) = Len(out.file)
        /\ \A i \in 1..Len(menus) :
             LET entries == out.file[i].days
             IN  /\ Len(menus[i].days) = Len(entries)
                 /\ out.file[i].people_count # Absent =>
                        menus[i].default_people_count
                            = out.file[i].people_count[1]
                 /\ \A j \in 1..Len(entries) :
                        heap[menus[i].days[j]].people_count
                            = Asked(entries[j], menus[i])
                 /\ menus[i].total_weight =
                        SumSeq([j \in 1..Len(entries) |->
                                  heap[days[entries[j].day]].weight
                                  * Asked(entries[j], menus[i])])

\* C9 witness: d1, defined with people_count 2, entered alone with the
\* explicit count 3, adds 3 times its per-person weight.
C9_Witness ==
    /\ JustLoaded
    /\ heap[days["d1"]].people_count = 2
    /\ \E i \in 1..Len(menus) :
         /\ out.file[i].days = <<[day |-> "d1", people_count |-> Given(3)]>>
         /\ menus[i].total_weight = 3 * heap[days["d1"]].weight
         /\ menus[i].total_weight > 0

\* The places of the day entries of a menus file: <<menu, entry>>.
EntryPlaces(file) ==
    UNION {{<<i, j>> : j \in 1..Len(file[i].days)} : i \in 1..Len(file)}

Composition == {"name", "breakfast", "lunch", "dinner", "everyday"}

\* C10: a load_menus step leaves the day registry and every Day in it as
\* they were; each Day a menu holds is a new object, one per entry, with the
\* meals and the derived figures of the registry Day it was copied from.
C10_RegistryDaysUntouched ==
    [][(pc = "norms" /\ pc' = "menus") =>
        /\ days' = days
        /\ \A n \in DOMAIN days : heap'[days[n]] = heap[days[n]]
        /\ \A p \in EntryPlaces(out'.file) :
             LET id == menus'[p[1]].days[p[2]]
                 original == heap[days[out'.file[p[1]].days[p[2]].day]]
             IN  /\ id \notin {days[n] : n \in DOMAIN days}
                 /\ \A f \in Composition \cup Figures :
                        heap'[id][f] = original[f]
                 /\ \A q \in EntryPlaces(out'.file) :
                        q # p => menus'[q[1]].days[q[2]] # id]_vars

\* C10 witness: two menus hold d1 with different counts, and d1 in the
\* registry still has the count it was defined with.
C10_Witness ==
    /\ JustLoaded
    /\ Len(menus) = 2
    /\ out.file[1].days = <<[day |-> "d1", people_count |-> Given(3)]>>
    /\ out.file[2].days = <<[day |-> "d1", people_count |-> Absent]>>
    /\ heap[menus[1].days[1]].people_count = 3
    /\ heap[menus[2].days[1]].people_count = menus[2].default_people_count
    /\ heap[days["d1"]].people_count = 2

Grouped == pc = "grouped" /\ out.call = "group_products_by_category"

\* C11: the result of group_products_by_category has every category of
\* productGroups as a key, also a category no product of the BOM falls in
\* (its inner mapping is then empty), so the lookups of
\* display.print_grouped_products never fail.
C11_EveryCategoryIsAKey ==
    /\ Grouped =>
           \A i \in 1..Len(productGroups) :
               /\ productGroups[i] \in DOMAIN out.result
               /\ (\A n \in DOMAIN out.bom \cap DOMAIN products :
                      productCategoryMap[products[n].group] # productGroups[i])
                     => out.result[productGroups[i]] = EmptyDict
    /\ (pc \in {"printed", "failed"}
          /\ out.call = "display.print_grouped_products")
         => ~IsError(out.result)

\* The key-wise sum of two BOMs (map-merge).
Merge(a, b) ==
    [n \in DOMAIN a \cup DOMAIN b |-> Get(a, n, 0) + Get(b, n, 0)]

\* C12: the BOM of [A, B] is the BOM of [B, A] and is the key-wise sum of
\* the BOM of [A] and the BOM of [B], for the menus A, B of every list of
\* two loaded menus.
C12_BomOrderAndGrouping ==
    (BomDone /\ Len(out.menus) = 2) =>
        LET A == out.menus[1]
            B == out.menus[2]
        IN  /\ out.result = get_bom_for_menus(<<B, A>>, heap)
            /\ out.result = Merge(get_bom_for_menus(<<A>>, heap),
                                  get_bom_for_menus(<<B>>, heap))
            /\ out.result = Merge(get_bom_for_menus(<<B>>, heap),
                                  get_bom_for_menus(<<A>>, heap))

\* C12 witness: two menus that need different amounts of a product, the
\* combined BOM holding the sum of the two.
C12_Witness ==
    /\ BomDone /\ Len(out.menus) = 2
    /\ LET a == get_bom_for_menus(<<out.menus[1]>>, heap)
           b == get_bom_for_menus(<<out.menus[2]>>, heap)
       IN  /\ "rice" \in DOMAIN a \cap DOMAIN b
           /\ a["rice"] # b["rice"]
           /\ out.result["rice"] = a["rice"] + b["rice"]

Listed == pc \in {"listed", "failed"} /\ out # None
              /\ out.call \in {"display_bom", "main"}

\* C13: the shopping list reported for one menu is the grouped BOM of that
\* menu alone and the combined list is the grouped BOM of all menus; so
\* with two menus that both need a product, the per-menu quantity of it is
\* below the combined one.
C13_PerMenuListIsOfThatMenu ==
    Listed =>
        LET r == out.result
            alone(i) == group_products_by_category(
                            get_bom_for_menus(<<menus[i]>>, heap), products)
            all == group_products_by_category(
                       get_bom_for_menus(menus, heap), products)
        IN  /\ \A i \in 1..Len(r.per_menu) : r.per_menu[i] = alone(i)
            /\ \A k \in 1..Len(r.combined) : r.combined[k] = all
            /\ \A i, j \in 1..Len(r.per_menu) :
                   (i # j /\ menus[i].days # <<>> /\ menus[j].days # <<>>)
                     => \A c \in DOMAIN r.per_menu[i] :
                          \A n \in DOMAIN r.per_menu[i][c] :
                             r.per_menu[i][c][n] < all[c][n]

\* The people counts of the days a menu holds.
CountsOf(menu) == {heap[menu.days[j]].people_count : j \in 1..Len(menu.days)}

\* The people counts a constant may stand for.
PeopleCounts == 1..(MaxPeople + 2)

\* C14 as stated: a Menu whose days differ in people_count has a
\* total_weight that differs from weight_per_person * c for every single
\* people count c.
C14_Original ==
    MenusLoaded =>
        \A i \in 1..Len(menus) :
            Cardinality(CountsOf(menus[i])) > 1 =>
                \A c \in PeopleCounts :
                    menus[i].total_weight # menus[i].weight_per_person * c

\* C14 amended: a Menu whose days differ in people_count and all have a
\* positive weight has a total_weight strictly between weight_per_person
\* times the smallest and times the largest of its days' counts, so it
\* differs from weight_per_person times either of them.
C14_TotalWeightBetweenExtremes ==
    MenusLoaded =>
        \A i \in 1..Len(menus) :
            (/\ Cardinality(CountsOf(menus[i])) > 1
             /\ \A j \in 1..Len(menus[i].days) :
                    heap[menus[i].days[j]].weight > 0) =>
                LET least == CHOOSE c \in CountsOf(menus[i]) :
                                 \A d \in CountsOf(menus[i]) : c <= d
                    most == CHOOSE c \in CountsOf(menus[i]) :
                                \A d \in CountsOf(menus[i]) : c >= d
                IN  /\ menus[i].total_weight > menus[i].weight_per_person * least
                    /\ menus[i].total_weight < menus[i].weight_per_person * most

\* C14 witness: a menu of two days of different weights, one for 2 people
\* and one for 3.
C14_Witness ==
    /\ MenusLoaded
    /\ \E i \in 1..Len(menus) :
         /\ CountsOf(menus[i]) = {2, 3}
         /\ heap[menus[i].days[1]].weight # heap[menus[i].days[2]].weight
         /\ menus[i].total_weight > 2 * menus[i].weight_per_person

\* The per-person figure of a Menu that sums the figure f of its days.
MenuFigure(f) == IF f = "weight" THEN "weight_per_person" ELSE f

\* C15: calories, proteins, fats, carbohydrates and weight_per_person of a
\* Menu are the plain sums of the one-person figures of its days: of the
\* Days it holds and, equally, of the registry Days its entries name,
\* whatever counts the entries and the menu give.
C15_PerPersonFiguresArePlainSums ==
    /\ MenusLoaded =>
           \A i \in 1..Len(menus) : \A f \in Figures :
               menus[i][MenuFigure(f)] =
                   SumSeq([j \in 1..Len(menus[i].days) |->
                             heap[menus[i].days[j]][f]])
    /\ JustLoaded =>
           \A i \in 1..Len(menus) : \A f \in Figures :
               menus[i][MenuFigure(f)] =
                   SumSeq([j \in 1..Len(out.file[i].days) |->
                             heap[days[out.file[i].days[j].day]][f]])

\* C15 witness: a menu with default count 2 holding a day for 2 people and
\* a day for 3.
C15_Witness ==
    /\ JustLoaded
    /\ \E i \in 1..Len(menus) :
         /\ menus[i].default_people_count = 2
         /\ CountsOf(menus[i]) = {2, 3}
         /\ menus[i].calories > 0
         /\ menus[i].weight_per_person < menus[i].total_weight

\* C16: group_products_by_category raises nothing; a BOM entry whose name
\* the registry does not hold appears under no category; every entry whose
\* name the registry holds is present, under its product's category and no
\* other, with its BOM quantity.
C16_UnknownNamesSkipped ==
    Grouped =>
        /\ ~IsError(out.result)
        /\ \A c \in DOMAIN out.result :
               DOMAIN out.result[c] \subseteq DOMAIN out.bom \cap DOMAIN products
        /\ \A n \in DOMAIN out.bom \cap DOMAIN products :
               \A c \in {productGroups[i] : i \in 1..Len(productGroups)} :
                   IF c = productCategoryMap[products[n].group]
                   THEN /\ c \in DOMAIN out.result
                        /\ n \in DOMAIN out.result[c]
                        /\ out.result[c][n] = out.bom[n]
                   ELSE c \in DOMAIN out.result => n \notin DOMAIN out.result[c]

\* C16 witness: a BOM of three names, one of them not in the registry, the
\* other two grouped under one category.
C16_Witness ==
    /\ Grouped
    /\ DOMAIN out.bom = GroupNames
    /\ DOMAIN products = {"rice", "nuts"}
    /\ DOMAIN out.result = {"Myaso i molochka"}
    /\ DOMAIN out.result["Myaso i molochka"] = {"rice", "nuts"}

HasNegative(pairs) == \E i \in 1..Len(pairs) : pairs[i].quantity < 0

\* C17: a Meal with a pair of negative quantity, at any position, is not
\* built: the constructor raises ValueError and returns no Meal, load_meals
\* raises and yields no registry, load_everyday raises and yields no meal.
C17_NegativeQuantityFails ==
    out # None =>
        /\ (out.call = "Meal" /\ HasNegative(out.items)) =>
               /\ out.result = ValueError
               /\ pc = "failed" /\ meals = EmptyDict
        /\ (out.call = "load_meals"
              /\ \E k \in 1..Len(out.file) : HasNegative(out.file[k].details)) =>
               /\ IsError(out.result)
               /\ pc = "failed" /\ meals = EmptyDict
        /\ (out.call = "load_everyday" /\ HasNegative(out.file)) =>
               /\ IsError(out.result)
               /\ pc = "failed" /\ everyday = None

\* C17 witness: the negative quantity is the last of three pairs, after two
\* that would have added to the sums.
C17_Witness ==
    /\ pc = "failed" /\ out.call = "Meal"
    /\ Len(out.items) = 3
    /\ out.items[1].quantity > 0 /\ out.items[2].quantity > 0
    /\ out.items[3].quantity < 0
    /\ out.result = ValueError

\* A count a file gives is below 1.
Below1(c) == c # Absent /\ c[1] < 1

\* C18: a people count below 1 is refused, never corrected: Day(...) and
\* replace(...) with such a count raise ValueError; load_days fails on a
\* file with such a day and yields no registry; load_menus fails on a file
\* with such a menu or such a day entry and yields no menus; every Day of
\* the registry and every Day a loaded Menu holds is for at least 1 person.
C18_CountBelow1Refused ==
    /\ \A id \in 1..Len(heap) : heap[id].people_count >= 1
    /\ pc \in {"days", "menus"} =>
           \A id \in 1..Len(heap) : \A n \in -1..0 :
               /\ replace(heap[id], n) = ValueError
               /\ Day(heap[id].name, heap[id].breakfast, heap[id].lunch,
                      heap[id].dinner, heap[id].everyday, n) = ValueError
    /\ \A i \in 1..Len(menus) : menus[i].default_people_count >= 1
    /\ out # None =>
         /\ (out.call = "load_days"
               /\ \E i \in 1..Len(out.file) : Below1(out.file[i].people_count)) =>
                /\ pc = "failed" /\ out.result = ValueError
                /\ days = EmptyDict /\ heap = <<>>
         /\ (out.call = "load_menus"
               /\ \E p \in Places(out.file) :
                      Below1(IF p[2] = 0 THEN out.file[p[1]].people_count
                             ELSE out.file[p[1]].days[p[2]].people_count)) =>
                /\ pc = "failed" /\ out.result = ValueError
                /\ menus = <<>>
                /\ \A id \in 1..Len(heap) : id \in {days[n] : n \in DOMAIN days}

\* C18 witness: load_menus refuses a file whose second menu has an entry
\* for 0 people, after a first menu that is in order.
C18_Witness ==
    /\ pc = "failed" /\ out # None /\ out.call = "load_menus"
    /\ Len(out.file) = 2
    /\ Len(out.file[1].days) = 1 /\ Len(out.file[2].days) = 1
    /\ ~Below1(out.file[1].people_count)
    /\ ~Below1(out.file[1].days[1].people_count)
    /\ out.file[1].days[1].day \in DOMAIN days
    /\ out.file[2].days[1].people_count = Given(0)
    /\ menus = <<>>

\* C19: a name its registry does not hold aborts the load step with an
\* error and no registry results: a product name of a meal (load_meals,
\* load_everyday), a breakfast, lunch or dinner name of a day (load_days),
\* a day name of a menu entry (load_menus).
C19_UnknownNameAborts ==
    out # None =>
        /\ (out.call = "load_meals"
              /\ \E k \in 1..Len(out.file) : \E i \in 1..Len(out.file[k].details) :
                     out.file[k].details[i].product \notin DOMAIN products) =>
               /\ pc = "failed" /\ IsError(out.result) /\ meals = EmptyDict
        /\ (out.call = "load_everyday"
              /\ \E i \in 1..Len(out.file) :
                     out.file[i].product \notin DOMAIN products) =>
               /\ pc = "failed" /\ IsError(out.result) /\ everyday = None
        /\ (out.call = "load_days"
              /\ \E i \in 1..Len(out.file) : \E k \in MealKeys :
                     /\ out.file[i][k] # Absent
                     /\ out.file[i][k][1] \notin DOMAIN meals) =>
               /\ pc = "failed" /\ IsError(out.result)
               /\ days = EmptyDict /\ heap = <<>>
        /\ (out.call = "load_menus"
              /\ \E p \in Places(out.file) :
                     /\ p[2] # 0
                     /\ out.file[p[1]].days[p[2]].day \notin DOMAIN days) =>
               /\ pc = "failed" /\ IsError(out.result) /\ menus = <<>>

\* C19 witness: load_days refuses a file whose second day names a lunch the
\* meal registry does not hold, the first day being in order.
C19_Witness ==
    /\ pc = "failed" /\ out # None /\ out.call = "load_days"
    /\ \A k \in MealKeys :
           out.file[1][k] # Absent /\ out.file[1][k][1] \in DOMAIN meals
    /\ out.file[2].lunch = Given(UnknownMealName)
    /\ UnknownMealName \notin DOMAIN meals
    /\ days = EmptyDict

\* C20: building a Day with one of its four meal references absent fails
\* with a validation error (ValueError): the constructor given None for
\* breakfast, lunch, dinner or everyday, and load_days given a day without
\* one of the meal keys or no everyday meal; no such Day is stored.
C20_AbsentMealIsValidationError ==
    /\ \A id \in 1..Len(heap) :
           None \notin {heap[id].breakfast, heap[id].lunch, heap[id].dinner,
                        heap[id].everyday}
    /\ out # None =>
         /\ (out.call = "Day" /\ out.absent # {}) =>
                /\ out.result = ValueError
                /\ pc = "failed" /\ days = EmptyDict
         /\ (out.call = "load_days"
               /\ (\/ out.everyday = None
                   \/ \E i \in 1..Len(out.file) : \E k \in MealKeys :
                          out.file[i][k] = Absent)) =>
                /\ out.result = ValueError
                /\ pc = "failed" /\ days = EmptyDict

\* The norms of a DailyNorms value are in order: no negative field, min not
\* above max.
NormsInOrder(n) ==
    /\ n.daily_calories_min >= 0 /\ n.daily_calories_max >= 0
    /\ n.daily_protein >= 0 /\ n.daily_fat >= 0 /\ n.daily_carbs >= 0
    /\ n.daily_calories_min <= n.daily_calories_max

\* A rule set of a file breaks the norms: a negative value, or both calorie
\* bounds given with min above max.
RulesBroken(rules) ==
    \/ \E k \in DOMAIN rules : rules[k] # Absent /\ rules[k][1] < 0
    \/ /\ rules.daily_calories_min # Absent /\ rules.daily_calories_max # Absent
       /\ rules.daily_calories_min[1] > rules.daily_calories_max[1]

\* C21: every DailyNorms value obtained by loading has daily_calories_min <=
\* daily_calories_max and no negative field, and a rule set that breaks this
\* makes the load fail, with the loader of daily_norms.py and with the loader
\* main.py imports (dailyNorms.py).
C21_LoadedNormsAreInOrder ==
    /\ norms # None => NormsInOrder(norms)
    /\ (out # None /\ RulesBroken(out.file)) =>
           IsError(out.result) /\ norms = None

ProductsLoadCalled == out # None /\ out.call = "load_products"

\* The entries of a document that make it into the parsed mapping: the last
\* one of each name.
Kept(f) == {i \in 1..Len(f) : \A j \in (i + 1)..Len(f) : f[j].name # f[i].name}

\* The document with every group written as a known category.
WithKnownGroups(f) ==
    [i \in 1..Len(f) |-> [f[i] EXCEPT !.details.group = Given("Grains")]]

C23_DuplicateNameFails ==
    (ProductsLoadCalled
       /\ \E i, j \in 1..Len(out.file) :
              i < j /\ out.file[i].name = out.file[j].name) =>
        IsError(out.result) /\ pc = "failed" /\ products = EmptyDict

\* The stages of load_configuration, in the order of its statements: the
\* call made at each position and the position a success leads to.
CallAt ==
    [start |-> "load_products", products |-> "load_meals",
     meals |-> "load_everyday", everyday |-> "load_days",
     days |-> "load_daily_norms", norms |-> "load_menus"]

NextStage ==
    [start |-> "products", products |-> "meals", meals |-> "everyday",
     everyday |-> "days", days |-> "norms", norms |-> "menus"]

\* One step of a run of load_configuration, as C24 allows it.
C24_Step ==
    /\ pc # "failed"
    /\ pc \in DOMAIN CallAt =>
         /\ out'.call = CallAt[pc]
         /\ \/ pc' = NextStage[pc] /\ "exit" \notin DOMAIN out'
            \/ /\ pc' = "failed" /\ out'.exit = 1 /\ IsError(out'.result)
               /\ UNCHANGED <<products, meals, everyday, heap, days, norms,
                              menus>>
    /\ pc' = "menus" =>
         /\ pc = "norms"
         /\ products' # EmptyDict /\ meals' # EmptyDict /\ everyday' # None
         /\ days' # EmptyDict /\ norms' # None

\* C24: load_configuration runs its stages in the order products, meals,
\* everyday meal, days, daily norms, menus; a stage that fails ends the run
\* with exit status 1, no later stage running and no configuration being
\* returned; the configuration is complete only when the sixth stage has
\* succeeded after the other five, and no stage runs twice.
C24_StagesInOrderFailFast == [][C24_Step]_vars

\* C24 witness: the fifth stage (daily norms) fails after four stages have
\* succeeded; the run has ended with status 1 and no menus are loaded.
C24_Witness ==
    /\ pc = "failed" /\ out.call = "load_daily_norms" /\ out.exit = 1
    /\ products # EmptyDict /\ meals # EmptyDict /\ everyday # None
    /\ days # EmptyDict /\ norms = None /\ menus = <<>>

\* A product's mapping in a file breaks a rule of C25: a nutrition value
\* below 0, a package weight not above 0, a cost below 0, a percentage
\* outside 0..100.
DetailsBroken(d) ==
    \/ \E k \in NutritionFields : d[k] # Absent /\ d[k][1] < 0
    \/ d.packageWeight # Absent /\ d.packageWeight[1] <= 0
    \/ d.costPerPackage # Absent /\ d.costPerPackage[1] < 0
    \/ d.percentage # Absent /\ (d.percentage[1] < 0 \/ d.percentage[1] > 100)

RECURSIVE BomWeight(_, _, _)
BomWeight(bom, reg, S) ==
    IF S = {} THEN 0
    ELSE LET n == CHOOSE x \in S : TRUE
         IN  bom[n] * reg[n].packageWeight + BomWeight(bom, reg, S \ {n})

\* C26: for a list of menus built over the product registry,
\* calculate_total_weight(menus) equals the sum over the entries of
\* bom = get_bom_for_menus(menus) of bom[name] * packageWeight(name) / 1000
\* (the total weight is held in units of 1/WeightScale, a whole multiple of
\* 1/1000, so the quotient is the sum times WeightScale / 1000).
C26_TotalWeightAgreesWithBom ==
    BomDone =>
        /\ DOMAIN out.result \subseteq DOMAIN products
        /\ out.total_weight
             = BomWeight(out.result, products, DOMAIN out.result)
               * (WeightScale \div 1000)

\* C26 witness: two menus whose days have different counts, with products of
\* different package weights in the BOM; the total weight differs from the
\* per-person weight.
C26_Witness ==
    /\ BomDone /\ Len(out.menus) = 2
    /\ \E i \in 1..Len(out.menus[1].days), j \in 1..Len(out.menus[2].days) :
           heap[out.menus[1].days[i]].people_count
             # heap[out.menus[2].days[j]].people_count
    /\ \E n, m \in DOMAIN out.result :
           products[n].packageWeight # products[m].packageWeight
    /\ out.total_weight
         # out.menus[1].weight_per_person + out.menus[2].weight_per_person

\* The kinds of the warnings check_rules returned.
KindsReturned == {out.result[i].kind : i \in 1..Len(out.result)}

\* C27: for norms with daily_calories_min <= daily_calories_max the
\* calories-low and the calories-high warning are never both produced for
\* one Day, so check_rules returns at most four warnings; both are produced
\* only for norms with daily_calories_min > daily_calories_max.
C27_LowAndHighExclude ==
    Checked =>
        /\ norms.daily_calories_min <= norms.daily_calories_max =>
               /\ ~({"calories_low", "calories_high"} \subseteq KindsReturned)
               /\ Len(out.result) <= 4
        /\ {"calories_low", "calories_high"} \subseteq KindsReturned =>
               norms.daily_calories_min > norms.daily_calories_max

\* C27 witness: a Day checked against norms in order gets four warnings.
C27_Witness ==
    /\ Checked
    /\ norms.daily_calories_min <= norms.daily_calories_max
    /\ norms.daily_calories_min > 0
    /\ Len(out.result) = 4

\* C28: the comparisons of check_rules are strict: a Day whose calories
\* equal daily_calories_min or daily_calories_max, whose proteins equal
\* daily_protein, whose fats equal daily_fat or whose carbohydrates equal
\* daily_carbs gets no warning for that figure.
C28_ComparisonsAreStrict ==
    Checked =>
        /\ CheckedDay.calories = norms.daily_calories_min =>
               "calories_low" \notin KindsReturned
        /\ CheckedDay.calories = norms.daily_calories_max =>
               "calories_high" \notin KindsReturned
        /\ CheckedDay.proteins = norms.daily_protein =>
               "proteins_low" \notin KindsReturned
        /\ CheckedDay.fats = norms.daily_fat => "fats_low" \notin KindsReturned
        /\ CheckedDay.carbohydrates = norms.daily_carbs =>
               "carbohydrates_low" \notin KindsReturned

\* C28 witness: a Day of 1000 calories, 35 g of proteins, 5 g of fats and
\* 225 g of carbohydrates checked against exactly these norms (the calorie
\* minimum being 1000): no warning.
C28_Witness ==
    /\ Checked
    /\ CheckedDay.calories = norms.daily_calories_min
    /\ CheckedDay.calories > 0
    /\ CheckedDay.proteins = norms.daily_protein
    /\ CheckedDay.fats = norms.daily_fat
    /\ CheckedDay.carbohydrates = norms.daily_carbs
    /\ out.result = <<>>

\* C29: category resolution round-trips: for every member c of
\* ProductCategory, from_str(c.value) is c, so a product whose group is
\* written in a file as the value of a member is stored with that member.
C29_CategoryValuesRoundTrip ==
    /\ (ProductsLoadCalled /\ ~IsError(out.result)) =>
           \A i \in Kept(out.file) : \A c \in ProductCategory :
               out.file[i].details.group = Given(CategoryValue[c]) =>
                   out.result[out.file[i].name].group = c
    /\ (out # None /\ out.call = "Product" /\ ~IsError(out.result)) =>
           \A c \in ProductCategory :
               out.group = Label(CategoryValue[c]) => out.result.group = c

\* The sum of d[n] over the keys S of a mapping d.
RECURSIVE SumDict(_, _)
SumDict(d, S) ==
    IF S = {} THEN 0
    ELSE LET n == CHOOSE x \in S : TRUE IN d[n] + SumDict(d, S \ {n})

\* The sum of all quantities of a grouped mapping, over its categories C.
RECURSIVE SumGroups(_, _)
SumGroups(g, C) ==
    IF C = {} THEN 0
    ELSE LET c == CHOOSE x \in C : TRUE
         IN  SumDict(g[c], DOMAIN g[c]) + SumGroups(g, C \ {c})

\* C30: grouping partitions the registered part of the BOM: every key of
\* the result is an entry of productGroups (productCategoryMap has an entry
\* for every member of ProductCategory, with a value in productGroups), every
\* BOM product the registry holds is under exactly one category with exactly
\* its BOM quantity, and the grouped quantities add up to the BOM quantities
\* of the registered products.
C30_GroupingPartitions ==
    Grouped =>
        LET g == out.result
            registered == DOMAIN out.bom \cap DOMAIN products
            categories == {productGroups[i] : i \in 1..Len(productGroups)}
        IN  /\ DOMAIN g \subseteq categories
            /\ DOMAIN productCategoryMap = ProductCategory
            /\ \A m \in ProductCategory : productCategoryMap[m] \in categories
            /\ \A n \in registered :
                   /\ Cardinality({c \in DOMAIN g : n \in DOMAIN g[c]}) = 1
                   /\ \A c \in DOMAIN g :
                          n \in DOMAIN g[c] => g[c][n] = out.bom[n]
            /\ SumGroups(g, DOMAIN g) = SumDict(out.bom, registered)

\* C30 witness: a BOM of three products, two of them registered, in two
\* categories, and one the registry does not hold.
C30_Witness ==
    /\ Grouped
    /\ Cardinality(DOMAIN out.bom) = 3
    /\ Cardinality(DOMAIN out.bom \cap DOMAIN products) = 2
    /\ Cardinality(DOMAIN out.result) = 2
    /\ SumGroups(out.result, DOMAIN out.result)
         < SumDict(out.bom, DOMAIN out.bom)

=============================================================================
